---- MODULE Spec2Model ----
(***************************************************************************)
(* The processing endpoint POST /api/process-pdf of the demand-letter      *)
(* generator, as a state machine.  The repository holds two handlers for   *)
(* the endpoint: one that analyses the uploaded files in parallel tasks    *)
(* joined by Promise.allSettled, and one that analyses them one by one     *)
(* with every model call wrapped in retryApiCall.  Both are modelled; the  *)
(* variable handler says which one serves the request.                     *)
(*                                                                         *)
(* One action is one uninterrupted run of handler code between two awaits. *)
(* The external model is the environment: the outcome of each of its       *)
(* calls (a thrown error, or a text) is chosen with \E.                    *)
(*                                                                         *)
(* Template strings are sequences of their parts, so that "the summary     *)
(* embeds the message" is a membership test.                               *)
(***************************************************************************)
EXTENDS Integers, Sequences, FiniteSets, TLC

\* ------------------------------------------------------------------ bounds
MaxFiles == 2

FileNames == {"a.pdf", "b.pdf"}

\* ------------------------------------------------------- program constants
maxRetries == 3
InitialDelay == 2000
RateLimitDelay == 1000

\* ---------------------------------------------------------------- helpers
Range(s) == {s[k] : k \in 1..Len(s)}

SeqsUpTo(S, n) == UNION {[1..k -> S] : k \in 0..n}

RECURSIVE SumSeq(_)
SumSeq(s) == IF s = <<>> THEN 0 ELSE s[1] + SumSeq(Tail(s))

\* ------------------------------------------------ JavaScript value coercion
\* A JSON value found under "expenses": a number, a string holding a number,
\* any other string, null, or nothing at all (undefined).
JsNumber(n) == [t |-> "number", v |-> n]
JsNumericString(n) == [t |-> "numeric string", v |-> n]
JsOtherString == [t |-> "string", v |-> 0]
JsNull == [t |-> "null", v |-> 0]
JsUndefined == [t |-> "undefined", v |-> 0]

\* Number(x): NaN for undefined and for a string that holds no number, 0 for
\* null.
ToNumber(x) ==
    CASE x.t = "number" -> [nan |-> FALSE, v |-> x.v]
      [] x.t = "numeric string" -> [nan |-> FALSE, v |-> x.v]
      [] x.t = "null" -> [nan |-> FALSE, v |-> 0]
      [] OTHER -> [nan |-> TRUE, v |-> 0]

\* n || 0 on a number: NaN and 0 are falsy.
OrZero(n) == IF n.nan \/ n.v = 0 THEN 0 ELSE n.v

\* s || fallback on a string: the empty string and undefined (modelled as
\* the empty string) are falsy.
OrString(s, fallback) == IF s = "" THEN fallback ELSE s

\* ------------------------------------------------------ the external model
\* Messages of the errors a model call can throw.
ErrorMessages == {"fetch failed"}

\* Message of the SyntaxError JSON.parse throws.
SyntaxErrorMessage == "Unexpected token in JSON"

\* Message of the TypeError request.formData() throws on a malformed body.
FormDataErrorMessage == "Failed to parse body as FormData."

NoError == "<none>"

NoData == [heading |-> "", summary |-> "", expenses |-> JsUndefined]

\* The JSON objects the model answers an extraction prompt with.
ExtractionData ==
    { [heading |-> "Exhibit 1: ER Bill", summary |-> "ER visit", expenses |-> JsNumber(500)],
      [heading |-> "Exhibit 2: MRI", summary |-> "MRI of the spine", expenses |-> JsNumericString(250)],
      [heading |-> "", summary |-> "", expenses |-> JsOtherString] }

\* A response text is a sequence of tokens: markdown code fences, a JSON
\* document, or text that is no JSON.
Fence == [kind |-> "fence", value |-> NoData]
Garbage == [kind |-> "garbage", value |-> NoData]
JsonDoc(d) == [kind |-> "json", value |-> d]

ExtractionTexts ==
    {<<JsonDoc(d)>> : d \in ExtractionData}
      \cup {<<Fence, JsonDoc(d), Fence>> : d \in ExtractionData}
      \cup {<<Garbage>>, <<Fence, Garbage, Fence>>}

NoGlobalData == [natureOfClaim |-> "", facts |-> ""]

GlobalData ==
    { [natureOfClaim |-> "Negligence claim", facts |-> "Rear-end collision"],
      [natureOfClaim |-> "Premises liability claim", facts |-> "Fall on a wet floor"] }

GFence == [kind |-> "fence", value |-> NoGlobalData]
GGarbage == [kind |-> "garbage", value |-> NoGlobalData]
GJsonDoc(d) == [kind |-> "json", value |-> d]

GlobalTexts ==
    {<<GJsonDoc(d)>> : d \in GlobalData}
      \cup {<<GFence, GJsonDoc(d), GFence>> : d \in GlobalData}
      \cup {<<GGarbage>>}

\* What one call of model.generateContent ends with.
Threw(m) == [kind |-> "throw", message |-> m, text |-> <<>>]
Returned(t) == [kind |-> "text", message |-> NoError, text |-> t]

ExtractionOutcomes == {Threw(m) : m \in ErrorMessages} \cup {Returned(t) : t \in ExtractionTexts}
GlobalOutcomes == {Threw(m) : m \in ErrorMessages} \cup {Returned(t) : t \in GlobalTexts}

\* text.replace(/```json|```/g, "")
StripFences(text) == SelectSeq(text, LAMBDA tok : tok.kind # "fence")

\* JSON.parse(cleanText): the value, or a SyntaxError.
JSONparse(clean) ==
    IF Len(clean) = 1 /\ clean[1].kind = "json"
    THEN [ok |-> TRUE, value |-> clean[1].value, message |-> NoError]
    ELSE [ok |-> FALSE, message |-> SyntaxErrorMessage]

\* ------------------------------------------------------------- exhibits
\* The exhibit built from a parsed extraction response.
Exhibit(fileName, data) ==
    [fileName |-> fileName,
     heading |-> <<OrString(data.heading, "Unknown Exhibit")>>,
     summary |-> <<OrString(data.summary, "No summary available")>>,
     expenses |-> OrZero(ToNumber(data.expenses))]

\* The exhibit the parallel handler's catch block returns.
ErrorExhibitParallel(fileName, message) ==
    [fileName |-> fileName,
     heading |-> <<"Error">>,
     summary |-> <<OrString(message, "Failed to analyze this file")>>,
     expenses |-> 0]

\* The exhibit the sequential handler's catch block pushes.
ErrorExhibitSequential(fileName, message) ==
    [fileName |-> fileName,
     heading |-> <<"Error: ", fileName>>,
     summary |-> <<"Failed to analyze this file: ", message,
                   ". Please try uploading a different format or check if the file is corrupted.">>,
     expenses |-> 0]

\* The value Promise.allSettled's result is mapped to; a rejected task gets
\* a fixed exhibit without a file name.
RejectedExhibit ==
    [fileName |-> "", heading |-> <<"Error">>, summary |-> <<"Unknown error">>, expenses |-> 0]

SettledValue(res) == IF res.status = "fulfilled" THEN res.value ELSE RejectedExhibit

\* The code of a task's try block that follows the model call: strip the
\* fences, parse, build the exhibit; or the error that reaches the catch.
AnalyzeText(fileName, text) ==
    LET parsed == JSONparse(StripFences(text))
    IN  IF parsed.ok
        THEN [ok |-> TRUE, exhibit |-> Exhibit(fileName, parsed.value), message |-> NoError]
        ELSE [ok |-> FALSE, exhibit |-> RejectedExhibit, message |-> parsed.message]

\* combinedSummaries: one "Exhibit N: <heading>\n<summary>" entry per
\* element of exhibits, joined by blank lines.
CombinedSummaries(exs) ==
    [i \in 1..Len(exs) |-> [n |-> i, heading |-> exs[i].heading, summary |-> exs[i].summary]]

\* A mutation of the reduce: without its initial value 0 the first exhibit
\* is the accumulator and its expenses are not added.
TotalExpensesNoInitialValue(exs) ==
    SumSeq([i \in 1..(Len(exs) - 1) |-> exs[i + 1].expenses])

\* exhibits.reduce((sum, e) => sum + (e.expenses || 0), 0)
TotalExpenses(exs) ==
    SumSeq([i \in 1..Len(exs) |-> IF exs[i].expenses = 0 THEN 0 ELSE exs[i].expenses])

\* ------------------------------------------------------------ responses
NoResponse ==
    [status |-> 0, keys |-> {}, error |-> "", details |-> "", exhibits |-> <<>>,
     totalExpenses |-> 0, globalAnalysis |-> NoGlobalData]

\* NextResponse.json({ error }, { status })
ErrorResponse(status, error) ==
    [NoResponse EXCEPT !.status = status, !.keys = {"error"}, !.error = error]

\* NextResponse.json({ success: true, exhibits, totalExpenses, globalAnalysis })
SuccessResponse(exs, data) ==
    [NoResponse EXCEPT !.status = 200,
                       !.keys = {"success", "exhibits", "totalExpenses", "globalAnalysis"},
                       !.exhibits = exs, !.totalExpenses = TotalExpenses(exs),
                       !.globalAnalysis = data]

\* A mutation of the outer catch: a success response without analysis.
DegradedSuccess(message) == SuccessResponse(<<>>, NoGlobalData)

\* The outer catch: { error: "Processing failed", details: err.message }, 500
ProcessingFailed(message) ==
    [NoResponse EXCEPT !.status = 500, !.keys = {"error", "details"},
                       !.error = "Processing failed", !.details = message]

\* ------------------------------------------------------------ the request
\* An exhibit of an earlier pass, as the browser session sends it back.
ExistingExhibit ==
    [fileName |-> "a.pdf", heading |-> <<"Exhibit 1: ER Bill">>,
     summary |-> <<"ER visit">>, expenses |-> 500]

\* The form data of a request: the uploaded files (by name), and the fields
\* the session adds when it holds exhibits.
Requests ==
    { [pdfs |-> f, existingExhibits |-> ex,
       keepFiles |-> [k \in 1..Len(ex) |-> ex[k].fileName], reprocessAll |-> r] :
        f \in SeqsUpTo(FileNames, MaxFiles),
        ex \in {<<>>, <<ExistingExhibit>>},
        r \in BOOLEAN }

\* --------------------------------------------------------------- the state
VARIABLES
    apiKey,             \* is process.env.GEMINI_API_KEY set
    handler,            \* "parallel" or "sequential": the handler serving the request
    request,            \* the form data sent
    pc,                 \* where the handler is
    formRead,           \* has request.formData() been called
    files,              \* formData.getAll("pdfs")
    task,               \* per file: where its analysis is
    caughtErr,          \* per file: the message of the error its catch block got
    calls,              \* per file: calls of model.generateContent issued for it
    retry,              \* attempt and delay of the retryApiCall in progress
    waits,              \* the delays the retryApiCall in progress has waited
    results,            \* parallel handler: what Promise.allSettled collects
    exhibits,           \* the exhibits array
    combinedSummaries,  \* the text of the global prompt
    globalCalls,        \* calls of model.generateContent issued for the global analysis
    response            \* the response returned

serverVars ==
    <<apiKey, handler, request, pc, formRead, files, task, caughtErr, calls, retry,
      waits, results, exhibits, combinedSummaries, globalCalls, response>>

\* ------------------------------------------- client-identity aggregation
\* null, where a string is expected.
Null == "<null>"

ClientInfoFields == {"clientName", "policyNumber", "claimNumber", "dateOfLoss"}

VARIABLES
    aggPc,              \* "collecting" while exhibits are folded, then "resolved"
    folded,             \* the number of exhibits folded so far
    candidates,         \* per field: the candidate values collected so far, in order
    aggregated          \* the AggregatedClientInfo last resolved

aggVars == <<aggPc, folded, candidates, aggregated>>

AggInit ==
    /\ aggPc = "collecting"
    /\ folded = 0
    /\ candidates = [f \in ClientInfoFields |-> <<>>]
    /\ aggregated = [f \in ClientInfoFields |-> Null]

\* ------------------------------------------------------ the browser session
\* undefined, where a string is expected.
Undefined == "<undefined>"

NullClientInfo == [f \in ClientInfoFields |-> Null]

\* The fields of the global analysis the section editor can select.
EmptyGlobalAnalysis == [natureOfClaim |-> "", facts |-> ""]

\* {} as any
BlankGlobalAnalysis == [natureOfClaim |-> Undefined, facts |-> Undefined]

\* The form data of a request that was not built.
NoFormData ==
    [keys |-> {}, pdfs |-> <<>>, existingExhibits |-> <<>>, keepFiles |-> <<>>,
     reprocessAll |-> FALSE]

\* getEmptyLetterData(): of apiData, the parts the components read.
EmptyLetterData ==
    [caseInfo |-> [client |-> "", policyNumber |-> "", claimNumber |-> "", dateOfLoss |-> ""],
     totalMedicalExpenses |-> 0,
     suggestedContent |-> [natureOfClaim |-> Undefined, facts |-> ""],
     apiData |-> [present |-> FALSE, globalAnalysis |-> BlankGlobalAnalysis,
                  hasClientInfo |-> FALSE, clientInfo |-> NullClientInfo]]

VARIABLES
    selectedFiles,      \* Sidebar: the names of the files picked, not yet processed
    isUploading,        \* Sidebar: isUploading
    inFlight,           \* the fetches of handleProcessFiles not yet answered
    lastAlert,          \* what the last alert of handleProcessFiles said
    formData,           \* the form data of the request in flight
    sessionExhibits,    \* Home: exhibits
    letterData,         \* Home: letterData
    ops                 \* the number of operations of the session so far

sessionVars ==
    <<selectedFiles, isUploading, inFlight, lastAlert, formData, sessionExhibits, letterData,
      ops>>

SessionInit ==
    /\ selectedFiles = <<>>
    /\ isUploading = FALSE
    /\ inFlight = 0
    /\ lastAlert = ""
    /\ formData = NoFormData
    /\ sessionExhibits = <<>>
    /\ letterData = EmptyLetterData
    /\ ops = 0

\* -------------------------------------------------------- the Word export
\* A category of a damages breakdown that is not there.
NoCategory == [present |-> FALSE, total |-> 0, items |-> <<>>]

\* The content of a section: undefined, a string (its lines; none for ""),
\* an array of strings, or a damages breakdown without a people list.
NoContent ==
    [kind |-> "undefined", lines |-> <<>>, specialDamages |-> NoCategory,
     futureMedicalExpenses |-> NoCategory, generalDamages |-> NoCategory]

NoSections == [damages |-> NoContent, facts |-> NoContent]

\* Of the body of an export request, the parts the sections and the demand
\* are built from; the request has no exhibits.
NoExportBody ==
    [apiData |-> [present |-> FALSE, globalAnalysis |-> NoSections],
     suggestedContent |-> NoSections,
     totalMedicalExpenses |-> 0,
     pleadingPaper |-> FALSE]

VARIABLES
    exportPc,           \* "idle", "received", "done"
    exportBody,         \* the body of the export request
    documentSections    \* the children of the document built

exportVars == <<exportPc, exportBody, documentSections>>

ExportInit ==
    /\ exportPc = "idle"
    /\ exportBody = NoExportBody
    /\ documentSections = <<>>

\* ------------------------------------------------- one call of retryApiCall
VARIABLES
    retryPc,            \* "calling", "waiting", "returned", "thrown"
    retryAttempt,       \* attempt
    retryDelay,         \* delay
    retryLog,           \* the error messages logged, one per failed attempt
    retryWaits,         \* the delays of the timers set
    retryEnd            \* what the call returned or threw

retryVars == <<retryPc, retryAttempt, retryDelay, retryLog, retryWaits, retryEnd>>

\* retryApiCall(apiCall) enters its loop and issues the first attempt.
RetryInit ==
    /\ retryPc = "calling"
    /\ retryAttempt = 1
    /\ retryDelay = InitialDelay
    /\ retryLog = <<>>
    /\ retryWaits = <<>>
    /\ retryEnd = [kind |-> "none", message |-> NoError, text |-> <<>>]

\* ---------------------------------------------- the pleading paper layout
VARIABLES
    layoutPc,           \* "idle", "wrap", "wrapped", "pleading", "pleaded"
    layoutText,         \* wrapTextToLines: text, a sequence of characters
    layoutMaxLength,    \* wrapTextToLines: maxLength
    layoutLines,        \* wrapTextToLines: the lines returned
    pleadingVersion,    \* createPleadingContent: "tables" (the earlier one) or "paragraphs"
    textLines,          \* createPleadingContent: textLines
    pleadingParagraphs  \* createPleadingContent: the paragraphs returned

layoutVars ==
    <<layoutPc, layoutText, layoutMaxLength, layoutLines, pleadingVersion, textLines,
      pleadingParagraphs>>

LayoutInit ==
    /\ layoutPc = "idle"
    /\ layoutText = <<>>
    /\ layoutMaxLength = 0
    /\ layoutLines = <<>>
    /\ pleadingVersion = "paragraphs"
    /\ textLines = <<>>
    /\ pleadingParagraphs = <<>>

\* ------------------------------------------- ExhibitManager, image upload
VARIABLES
    selectedExhibitForImage,  \* the index (from 0) chosen in the select
    imageReads,               \* the uploads whose files are being read
    uploads                   \* the number of uploads started so far

managerVars == <<selectedExhibitForImage, imageReads, uploads>>

ManagerInit ==
    /\ selectedExhibitForImage = 0
    /\ imageReads = <<>>
    /\ uploads = 0

\* ------------------------------------------------------------ all the state
\* The state outside the processing endpoint.
otherVars == <<aggVars, sessionVars, exportVars, retryVars, layoutVars, managerVars>>

OtherInit == AggInit /\ SessionInit /\ ExportInit /\ RetryInit /\ LayoutInit /\ ManagerInit

vars == <<serverVars, otherVars>>

NoRetry == [attempt |-> 0, delay |-> 0]

Pending == [status |-> "pending", value |-> RejectedExhibit]

Fulfilled(v) == [status |-> "fulfilled", value |-> v]

Init ==
    /\ apiKey \in BOOLEAN
    /\ handler \in {"parallel", "sequential"}
    /\ request \in Requests
    /\ pc = "entry"
    /\ formRead = FALSE
    /\ files = <<>>
    /\ task = <<>>
    /\ caughtErr = <<>>
    /\ calls = <<>>
    /\ retry = NoRetry
    /\ waits = <<>>
    /\ results = <<>>
    /\ exhibits = <<>>
    /\ combinedSummaries = <<>>
    /\ globalCalls = 0
    /\ response = NoResponse
    /\ OtherInit

\* ------------------------------------------------------------ retryApiCall
\* A mutation of the loop bound: attempt <= maxRetries + 1.
RetryDecisionOneMore(attempt, threw) ==
    IF ~threw THEN "return"
    ELSE IF attempt = maxRetries + 1 THEN "throw"
    ELSE "retry"

\* What retryApiCall does when attempt number `attempt` of maxRetries has
\* ended: return its result, rethrow its error, or wait and call again.
RetryDecision(attempt, threw) ==
    IF ~threw THEN "return"
    ELSE IF attempt = maxRetries THEN "throw"
    ELSE "retry"

\* delay *= 1.5
NextDelay(delay) == (delay * 3) \div 2

\* A handler without retryApiCall returns or throws what its one call did.
CallDecision(threw) ==
    IF handler = "sequential" THEN RetryDecision(retry.attempt, threw)
    ELSE IF threw THEN "throw" ELSE "return"

\* The first attempt of a new retryApiCall (sequential handler only).
FirstAttempt == IF handler = "sequential" THEN [attempt |-> 1, delay |-> InitialDelay] ELSE NoRetry

\* --------------------------------------------------------------- the steps
\* A mutation of the entry: the credential check is left out.
CheckApiKeyMissing ==
    /\ pc = "entry"
    /\ pc' = "formData"
    /\ UNCHANGED <<apiKey, handler, request, formRead, files, task, caughtErr, calls,
                   retry, waits, results, exhibits, combinedSummaries, globalCalls, response>>
    /\ UNCHANGED otherVars

\* Entry: the credential check, then request.formData() is awaited.
CheckApiKey ==
    /\ pc = "entry"
    /\ IF ~apiKey
       THEN /\ response' = ErrorResponse(500, "Gemini API key missing")
            /\ pc' = "done"
       ELSE /\ pc' = "formData"
            /\ UNCHANGED response
    /\ UNCHANGED <<apiKey, handler, request, formRead, files, task, caughtErr, calls,
                   retry, waits, results, exhibits, combinedSummaries, globalCalls>>
    /\ UNCHANGED otherVars

\* The tasks files.map starts: each runs up to its await of
\* file.arrayBuffer(); the loop of the sequential handler starts only the
\* first.
StartedTasks(n) ==
    [i \in 1..n |-> IF handler = "parallel" \/ i = 1 THEN "reading" ELSE "idle"]

\* The form data arrives (or cannot be parsed): the files check, then the
\* extractions start.
ReadFormData ==
    /\ pc = "formData"
    /\ formRead' = TRUE
    /\ \E parsed \in BOOLEAN :
        IF ~parsed
        THEN /\ response' = ProcessingFailed(FormDataErrorMessage)
             /\ pc' = "done"
             /\ UNCHANGED <<files, task, caughtErr, calls, results>>
        ELSE /\ files' = request.pdfs
             /\ IF Len(request.pdfs) = 0
                THEN /\ response' = ErrorResponse(400, "No PDF files provided")
                     /\ pc' = "done"
                     /\ UNCHANGED <<task, caughtErr, calls, results>>
                ELSE /\ pc' = "extract"
                     /\ task' = StartedTasks(Len(request.pdfs))
                     /\ caughtErr' = [i \in 1..Len(request.pdfs) |-> NoError]
                     /\ calls' = [i \in 1..Len(request.pdfs) |-> 0]
                     /\ results' = [i \in 1..Len(request.pdfs) |-> Pending]
                     /\ UNCHANGED response
    /\ UNCHANGED <<apiKey, handler, request, retry, waits, exhibits, combinedSummaries,
                   globalCalls>>
    /\ UNCHANGED otherVars

\* file.arrayBuffer() resolves: the task encodes the file and issues its
\* model call.
BufferRead(i) ==
    /\ pc = "extract"
    /\ i \in DOMAIN task
    /\ task[i] = "reading"
    /\ task' = [task EXCEPT ![i] = "calling"]
    /\ calls' = [calls EXCEPT ![i] = @ + 1]
    /\ retry' = FirstAttempt
    /\ waits' = <<>>
    /\ UNCHANGED <<apiKey, handler, request, pc, formRead, files, caughtErr, results,
                   exhibits, combinedSummaries, globalCalls, response>>
    /\ UNCHANGED otherVars

\* Every extraction of the request has ended: its exhibit is there, from the
\* try block or from the catch block.
Settled(i) == task[i] \in {"fulfilled", "caught"}

\* A mutation of the join: it resolves with the first task that settles.
SomeTaskSettled == \E i \in DOMAIN task : Settled(i)

TasksSettled == \A i \in DOMAIN task : Settled(i)

\* Step 2 up to the await of the global model call: combine the summaries
\* and issue the call.
StartGlobal(exs) ==
    /\ combinedSummaries' = CombinedSummaries(exs)
    /\ globalCalls' = 1
    /\ retry' = FirstAttempt
    /\ waits' = <<>>
    /\ pc' = "global"

\* What the try block of a task makes of the end of its model call: the
\* exhibit, or the error its catch block gets.
Analysis(fileName, out) ==
    IF out.kind = "text"
    THEN AnalyzeText(fileName, out.text)
    ELSE [ok |-> FALSE, exhibit |-> RejectedExhibit, message |-> out.message]

\* Parallel handler: the model call of task i ends; the task returns its
\* exhibit, from the try block or from the catch block, and its promise
\* fulfils.
TaskReturn(i, out) ==
    /\ handler = "parallel"
    /\ pc = "extract"
    /\ i \in DOMAIN task
    /\ task[i] = "calling"
    /\ LET a == Analysis(files[i], out)
       IN  IF a.ok
           THEN /\ results' = [results EXCEPT ![i] = Fulfilled(a.exhibit)]
                /\ task' = [task EXCEPT ![i] = "fulfilled"]
                /\ UNCHANGED caughtErr
           ELSE /\ results' = [results EXCEPT
                                 ![i] = Fulfilled(ErrorExhibitParallel(files[i], a.message))]
                /\ task' = [task EXCEPT ![i] = "caught"]
                /\ caughtErr' = [caughtErr EXCEPT ![i] = a.message]
    /\ UNCHANGED <<apiKey, handler, request, pc, formRead, files, calls, retry, waits,
                   exhibits, combinedSummaries, globalCalls, response>>
    /\ UNCHANGED otherVars

\* Parallel handler: Promise.allSettled resolves; the exhibits are collected
\* in file order and step 2 runs up to the global model call.
AllSettled ==
    /\ handler = "parallel"
    /\ pc = "extract"
    /\ TasksSettled
    /\ exhibits' = [i \in 1..Len(files) |-> SettledValue(results[i])]
    /\ StartGlobal(exhibits')
    /\ UNCHANGED <<apiKey, handler, request, formRead, files, task, caughtErr, calls,
                   results, response>>
    /\ UNCHANGED otherVars

\* Sequential handler: the loop goes on after file i: the next iteration runs
\* up to its await of file.arrayBuffer(), or, after the last file, step 2 runs
\* up to the global model call.
NextIteration(i, tk, exs) ==
    IF i < Len(files)
    THEN /\ task' = [tk EXCEPT ![i + 1] = "reading"]
         /\ retry' = NoRetry
         /\ waits' = <<>>
         /\ UNCHANGED <<pc, combinedSummaries, globalCalls>>
    ELSE /\ task' = tk
         /\ StartGlobal(exs)

\* Sequential handler, a mutation of the catch block: the error leaves the
\* loop and reaches the outer catch.
SequentialCatchRethrow(i, message) ==
    /\ response' = ProcessingFailed(message)
    /\ pc' = "done"
    /\ task' = [task EXCEPT ![i] = "caught"]
    /\ caughtErr' = [caughtErr EXCEPT ![i] = message]
    /\ retry' = NoRetry
    /\ waits' = <<>>
    /\ UNCHANGED <<exhibits, combinedSummaries, globalCalls>>

\* Sequential handler, a mutation of the catch block: the failed file gets
\* no exhibit.
SequentialCatchSkipping(i, message) ==
    /\ UNCHANGED exhibits
    /\ caughtErr' = [caughtErr EXCEPT ![i] = message]
    /\ NextIteration(i, [task EXCEPT ![i] = "caught"], exhibits)
    /\ UNCHANGED response

\* Sequential handler: the catch block of iteration i pushes the error
\* exhibit, and the loop goes on.
SequentialCatch(i, message) ==
    /\ exhibits' = Append(exhibits, ErrorExhibitSequential(files[i], message))
    /\ caughtErr' = [caughtErr EXCEPT ![i] = message]
    /\ NextIteration(i, [task EXCEPT ![i] = "caught"], exhibits')
    /\ UNCHANGED response

\* Sequential handler: the model call of file i ends.  retryApiCall waits
\* and calls again, or returns, or rethrows; the iteration pushes the
\* exhibit or, from its catch block, the error exhibit.
ExtractReturn(i, out) ==
    /\ handler = "sequential"
    /\ pc = "extract"
    /\ i \in DOMAIN task
    /\ task[i] = "calling"
    /\ LET decision == RetryDecision(retry.attempt, out.kind = "throw")
           a == Analysis(files[i], out)
       IN  CASE decision = "retry" ->
                  /\ task' = [task EXCEPT ![i] = "backoff"]
                  /\ UNCHANGED <<caughtErr, exhibits, retry, waits, pc, combinedSummaries,
                                 globalCalls, response>>
             [] decision # "retry" /\ a.ok ->
                  /\ exhibits' = Append(exhibits, a.exhibit)
                  /\ UNCHANGED <<caughtErr, response>>
                  /\ IF i < Len(files)
                     THEN /\ task' = [task EXCEPT ![i] = "pause"]
                          /\ retry' = NoRetry
                          /\ waits' = <<>>
                          /\ UNCHANGED <<pc, combinedSummaries, globalCalls>>
                     ELSE NextIteration(i, [task EXCEPT ![i] = "fulfilled"], exhibits')
             [] decision # "retry" /\ ~a.ok ->
                  SequentialCatch(i, a.message)
    /\ UNCHANGED <<apiKey, handler, request, formRead, files, calls, results>>
    /\ UNCHANGED otherVars

\* Sequential handler: the backoff timer of retryApiCall fires; the delay
\* grows and the next attempt is issued.
BackoffElapsed(i) ==
    /\ handler = "sequential"
    /\ pc = "extract"
    /\ i \in DOMAIN task
    /\ task[i] = "backoff"
    /\ waits' = Append(waits, retry.delay)
    /\ retry' = [attempt |-> retry.attempt + 1, delay |-> NextDelay(retry.delay)]
    /\ calls' = [calls EXCEPT ![i] = @ + 1]
    /\ task' = [task EXCEPT ![i] = "calling"]
    /\ UNCHANGED <<apiKey, handler, request, pc, formRead, files, caughtErr, results,
                   exhibits, combinedSummaries, globalCalls, response>>
    /\ UNCHANGED otherVars

\* Sequential handler: the delay between two files (RateLimitDelay ms) is
\* over.
PauseElapsed(i) ==
    /\ handler = "sequential"
    /\ pc = "extract"
    /\ i \in DOMAIN task
    /\ task[i] = "pause"
    /\ NextIteration(i, [task EXCEPT ![i] = "fulfilled"], exhibits)
    /\ UNCHANGED <<apiKey, handler, request, formRead, files, caughtErr, calls, results,
                   exhibits, response>>
    /\ UNCHANGED otherVars

\* The global model call ends: retryApiCall (sequential handler) waits and
\* calls again; a result is parsed and the success response returned; an
\* error, thrown by the call or by JSON.parse, reaches the outer catch.
GlobalReturn(out) ==
    /\ pc = "global"
    /\ LET decision == CallDecision(out.kind = "throw")
           parsed == JSONparse(StripFences(out.text))
       IN  CASE decision = "retry" ->
                  /\ pc' = "globalBackoff"
                  /\ UNCHANGED <<retry, waits, response>>
             [] decision = "throw" ->
                  /\ response' = ProcessingFailed(out.message)
                  /\ pc' = "done"
                  /\ retry' = NoRetry
                  /\ waits' = <<>>
             [] decision = "return" /\ ~parsed.ok ->
                  /\ response' = ProcessingFailed(parsed.message)
                  /\ pc' = "done"
                  /\ retry' = NoRetry
                  /\ waits' = <<>>
             [] decision = "return" /\ parsed.ok ->
                  /\ response' = SuccessResponse(exhibits, parsed.value)
                  /\ pc' = "done"
                  /\ retry' = NoRetry
                  /\ waits' = <<>>
    /\ UNCHANGED <<apiKey, handler, request, formRead, files, task, caughtErr, calls,
                   results, exhibits, combinedSummaries, globalCalls>>
    /\ UNCHANGED otherVars

\* Sequential handler: the backoff timer of the global retryApiCall fires.
GlobalBackoffElapsed ==
    /\ pc = "globalBackoff"
    /\ waits' = Append(waits, retry.delay)
    /\ retry' = [attempt |-> retry.attempt + 1, delay |-> NextDelay(retry.delay)]
    /\ globalCalls' = globalCalls + 1
    /\ pc' = "global"
    /\ UNCHANGED <<apiKey, handler, request, formRead, files, task, caughtErr, calls,
                   results, exhibits, combinedSummaries, response>>
    /\ UNCHANGED otherVars

Next ==
    \/ CheckApiKey
    \/ ReadFormData
    \/ \E i \in 1..MaxFiles : BufferRead(i)
    \/ \E i \in 1..MaxFiles, out \in ExtractionOutcomes : TaskReturn(i, out)
    \/ AllSettled
    \/ \E i \in 1..MaxFiles, out \in ExtractionOutcomes : ExtractReturn(i, out)
    \/ \E i \in 1..MaxFiles : BackoffElapsed(i)
    \/ \E i \in 1..MaxFiles : PauseElapsed(i)
    \/ \E out \in GlobalOutcomes : GlobalReturn(out)
    \/ GlobalBackoffElapsed

Spec == Init /\ [][Next]_vars

\* The first pass of a session: the request carries files only.
FirstPassInit == Init /\ request.existingExhibits = <<>> /\ ~request.reprocessAll

\* The event loop runs every continuation that is ready, every timer fires
\* and every model call returns or throws.
FairSpec == FirstPassInit /\ [][Next]_vars /\ WF_vars(Next)

\* ------------------------------------------- client-identity aggregation
\* The number of exhibits whose clientInfo is folded in one request.
MaxFolds == 4

\* The clientInfo one exhibit can carry: fields agree, differ, are null or
\* are the empty string.
ClientInfos ==
    { [clientName |-> "Jane Doe", policyNumber |-> "P-1", claimNumber |-> Null,
       dateOfLoss |-> "2024-01-05"],
      [clientName |-> "J. Doe", policyNumber |-> "P-1", claimNumber |-> "",
       dateOfLoss |-> Null],
      [clientName |-> "J. Doe", policyNumber |-> "P-2", claimNumber |-> "C-9",
       dateOfLoss |-> "2024-01-05"],
      [clientName |-> Null, policyNumber |-> Null, claimNumber |-> Null,
       dateOfLoss |-> Null] }

NonEmpty(v) == v # Null /\ v # ""

Count(list, v) == Cardinality({i \in DOMAIN list : list[i] = v})

\* The most frequent value, the last seen among the most frequent.
MostFrequentLastSeen(list) ==
    IF list = <<>> THEN Null
    ELSE list[CHOOSE i \in DOMAIN list :
                  /\ \A j \in DOMAIN list : Count(list, list[j]) <= Count(list, list[i])
                  /\ \A j \in DOMAIN list :
                         Count(list, list[j]) = Count(list, list[i]) => j <= i]

\* One pass over the list in insertion order, keeping the value whose count
\* is strictly greater than the best so far.
RECURSIVE MostFrequentFrom(_, _, _, _)
MostFrequentFrom(list, i, best, bestCount) ==
    IF i > Len(list) THEN best
    ELSE IF Count(list, list[i]) > bestCount
         THEN MostFrequentFrom(list, i + 1, list[i], Count(list, list[i]))
         ELSE MostFrequentFrom(list, i + 1, best, bestCount)

MostFrequent(list) == MostFrequentFrom(list, 1, Null, 0)

\* The side effect of one extraction: the non-empty fields of the exhibit's
\* clientInfo are appended to the candidate lists.
FoldClientInfo(info) ==
    /\ aggPc = "collecting"
    /\ folded < MaxFolds
    /\ folded' = folded + 1
    /\ candidates' = [f \in ClientInfoFields |->
                         IF NonEmpty(info[f]) THEN Append(candidates[f], info[f])
                         ELSE candidates[f]]
    /\ UNCHANGED <<aggPc, aggregated>>
    /\ UNCHANGED <<serverVars, sessionVars, exportVars, retryVars, layoutVars, managerVars>>

\* All exhibits are in hand: one value per field is resolved.  It can be run
\* again on the same lists.
ResolveClientInfo ==
    /\ aggregated' = [f \in ClientInfoFields |-> MostFrequent(candidates[f])]
    /\ aggPc' = "resolved"
    /\ UNCHANGED <<folded, candidates>>
    /\ UNCHANGED <<serverVars, sessionVars, exportVars, retryVars, layoutVars, managerVars>>

\* The next request starts from empty candidate lists.
NewAggregation ==
    /\ aggPc = "resolved"
    /\ aggPc' = "collecting"
    /\ folded' = 0
    /\ candidates' = [f \in ClientInfoFields |-> <<>>]
    /\ aggregated' = [f \in ClientInfoFields |-> Null]
    /\ UNCHANGED <<serverVars, sessionVars, exportVars, retryVars, layoutVars, managerVars>>

AggNext ==
    \/ \E info \in ClientInfos : FoldClientInfo(info)
    \/ ResolveClientInfo
    \/ NewAggregation

\* ------------------------------------------------------ the browser session
\* The number of operations of one session that are followed.
MaxOps == 6

\* What the user can pick or drop: PDF files, and a file that is no PDF.
Files ==
    {[name |-> n, pdf |-> TRUE] : n \in FileNames} \cup {[name |-> "notes.txt", pdf |-> FALSE]}

\* The number of files picked or dropped at once.
MaxBatch == 2

Batches == SeqsUpTo(Files, MaxBatch) \ {<<>>}

\* Array.from(files).filter(file => file.type === "application/pdf"), by name
PdfFiles(batch) ==
    LET pdfs == SelectSeq(batch, LAMBDA f : f.pdf)
    IN  [i \in 1..Len(pdfs) |-> pdfs[i].name]

\* checkForDuplicates(newFiles).uniqueFiles: the names checked against the
\* selected files and the exhibits, not against one another.
UniqueFiles(newFiles) ==
    LET existingFileNames ==
            Range(selectedFiles) \cup {sessionExhibits[i].fileName : i \in DOMAIN sessionExhibits}
    IN  SelectSeq(newFiles, LAMBDA n : n \notin existingFileNames)

\* The body handleFileSelect and handleDrop share.
AddFiles(batch) ==
    /\ ops < MaxOps
    /\ ops' = ops + 1
    /\ Len(selectedFiles) + Len(batch) <= MaxFiles
    /\ IF PdfFiles(batch) = <<>>
       THEN UNCHANGED selectedFiles
       ELSE selectedFiles' = selectedFiles \o UniqueFiles(PdfFiles(batch))
    /\ UNCHANGED <<isUploading, inFlight, lastAlert, formData, sessionExhibits, letterData>>
    /\ UNCHANGED <<serverVars, aggVars, exportVars, retryVars, layoutVars, managerVars>>

\* The files of one file dialog come from one folder: no two share a name.
DistinctNames(batch) ==
    \A i, j \in DOMAIN batch : batch[i].name = batch[j].name => i = j

HandleFileSelect(batch) == DistinctNames(batch) /\ AddFiles(batch)

\* The files of one drop can come from several folders.
HandleDrop(batch) == AddFiles(batch)

RemoveAt(seq, index) == SubSeq(seq, 1, index - 1) \o SubSeq(seq, index + 1, Len(seq))

RemoveSelectedFile(index) ==
    /\ ops < MaxOps
    /\ ops' = ops + 1
    /\ index \in DOMAIN selectedFiles
    /\ selectedFiles' = RemoveAt(selectedFiles, index)
    /\ UNCHANGED <<isUploading, inFlight, lastAlert, formData, sessionExhibits, letterData>>
    /\ UNCHANGED <<serverVars, aggVars, exportVars, retryVars, layoutVars, managerVars>>

\* A mutation of the form data: reprocessAll whenever exhibits exist.
ProcessRequestAlwaysReprocess(selected, exs) ==
    [keys |-> (IF selected # <<>> THEN {"pdfs"} ELSE {})
                \cup (IF exs # <<>> THEN {"existingExhibits", "keepFiles", "reprocessAll"} ELSE {}),
     pdfs |-> selected,
     existingExhibits |-> exs,
     keepFiles |-> [i \in 1..Len(exs) |-> exs[i].fileName],
     reprocessAll |-> exs # <<>>]

\* The form data handleProcessFiles builds: keys are the fields appended;
\* a field that is not appended is empty (or FALSE).
ProcessRequest(selected, exs) ==
    LET hasNewFiles == selected # <<>>
        hasExistingFiles == exs # <<>>
    IN  [keys |-> (IF hasNewFiles THEN {"pdfs"} ELSE {})
                    \cup (IF hasExistingFiles THEN {"existingExhibits", "keepFiles"} ELSE {})
                    \cup (IF ~hasNewFiles /\ hasExistingFiles THEN {"reprocessAll"} ELSE {}),
         pdfs |-> selected,
         existingExhibits |-> IF hasExistingFiles THEN exs ELSE <<>>,
         keepFiles |-> IF hasExistingFiles
                       THEN [i \in 1..Len(exs) |-> exs[i].fileName]
                       ELSE <<>>,
         reprocessAll |-> ~hasNewFiles /\ hasExistingFiles]

\* A mutation of the button: it stays enabled during a request.
ProcessButtonNeverDisabled(uploading) == FALSE

\* disabled={isUploading} of the process button, the one caller of
\* handleProcessFiles.
ProcessButtonDisabled(uploading) == uploading

\* handleProcessFiles up to the fetch.
HandleProcessFiles ==
    /\ ops < MaxOps
    /\ ops' = ops + 1
    /\ ~ProcessButtonDisabled(isUploading)
    /\ IF selectedFiles = <<>> /\ sessionExhibits = <<>>
       THEN UNCHANGED <<isUploading, inFlight, formData>>
       ELSE /\ isUploading' = TRUE
            /\ inFlight' = inFlight + 1
            /\ formData' = ProcessRequest(selectedFiles, sessionExhibits)
    /\ UNCHANGED <<selectedFiles, lastAlert, sessionExhibits, letterData>>
    /\ UNCHANGED <<serverVars, aggVars, exportVars, retryVars, layoutVars, managerVars>>

\* An exhibit of a response, with the clientInfo the Exhibit type allows.
WithClientInfo(e, info) ==
    [fileName |-> e.fileName, heading |-> e.heading, summary |-> e.summary,
     expenses |-> e.expenses, clientInfo |-> info, images |-> <<>>]

\* The clientInfo the model extracted along with the data d: the ER bill
\* names the client in full, the MRI report by initial, the empty document
\* not at all.
ClientInfoIn(d) ==
    IF d.expenses = JsNumber(500)
    THEN CHOOSE info \in ClientInfos : info.clientName = "Jane Doe"
    ELSE IF d.expenses = JsNumericString(250)
    THEN CHOOSE info \in ClientInfos : info.clientName = "J. Doe" /\ info.policyNumber = "P-1"
    ELSE NullClientInfo

\* The exhibits a response can hold for one uploaded file.
FileExhibits(fileName) ==
    {WithClientInfo(Exhibit(fileName, d), ClientInfoIn(d)) : d \in ExtractionData}
      \cup {WithClientInfo(ErrorExhibitSequential(fileName, m), NullClientInfo) :
                m \in ErrorMessages}

\* One exhibit per uploaded file, in the order of the files.
RECURSIVE ResponseExhibits(_)
ResponseExhibits(pdfs) ==
    IF pdfs = <<>> THEN {<<>>}
    ELSE {<<e>> \o rest : e \in FileExhibits(Head(pdfs)), rest \in ResponseExhibits(Tail(pdfs))}

\* The candidate list of one field over the exhibits, in order.
FieldCandidates(exs, f) ==
    LET with == SelectSeq(exs, LAMBDA e : NonEmpty(e.clientInfo[f]))
    IN  [i \in 1..Len(with) |-> with[i].clientInfo[f]]

AggregatedClientInfo(exs) ==
    [f \in ClientInfoFields |-> MostFrequent(FieldCandidates(exs, f))]

EmptyApiResponse ==
    [success |-> TRUE, exhibits |-> <<>>, totalExpenses |-> 0,
     globalAnalysis |-> EmptyGlobalAnalysis, hasClientInfo |-> TRUE,
     clientInfo |-> NullClientInfo]

\* The body of an error response: no success key.
FailureBody == [EmptyApiResponse EXCEPT !.success = FALSE, !.hasClientInfo = FALSE]

\* The body of a success response, with the aggregated clientInfo.
SuccessBody(exs, data) ==
    [success |-> TRUE, exhibits |-> exs, totalExpenses |-> TotalExpenses(exs),
     globalAnalysis |-> data, hasClientInfo |-> TRUE,
     clientInfo |-> AggregatedClientInfo(exs)]

\* The bodies the endpoint can answer a request with.
ResponseBodies(req) ==
    {FailureBody} \cup
    IF req.pdfs = <<>> THEN {}
    ELSE {SuccessBody(exs, g) : exs \in ResponseExhibits(req.pdfs), g \in GlobalData}

\* A mutation of the fallback: the value is taken as it comes.
OrPrevClearing(value, prev) == value

\* value || prev
OrPrev(value, prev) == IF value \in {Null, Undefined, ""} THEN prev ELSE value

\* A mutation of handleApiResponse: the suggested content of an earlier
\* response is kept.
LetterAfterResponseKeeping(prev, r) ==
    [prev EXCEPT
        !.apiData = [present |-> TRUE, globalAnalysis |-> r.globalAnalysis,
                     hasClientInfo |-> r.hasClientInfo, clientInfo |-> r.clientInfo],
        !.totalMedicalExpenses = r.totalExpenses,
        !.suggestedContent =
            IF prev.apiData.present THEN prev.suggestedContent
            ELSE [natureOfClaim |-> r.globalAnalysis.natureOfClaim,
                  facts |-> r.globalAnalysis.facts]]

\* handleApiResponse's setLetterData(prev => ...)
LetterAfterResponse(prev, r) ==
    [prev EXCEPT
        !.apiData = [present |-> TRUE, globalAnalysis |-> r.globalAnalysis,
                     hasClientInfo |-> r.hasClientInfo, clientInfo |-> r.clientInfo],
        !.totalMedicalExpenses = r.totalExpenses,
        !.caseInfo =
            [client |-> OrPrev(r.clientInfo.clientName, prev.caseInfo.client),
             policyNumber |-> OrPrev(r.clientInfo.policyNumber, prev.caseInfo.policyNumber),
             claimNumber |-> OrPrev(r.clientInfo.claimNumber, prev.caseInfo.claimNumber),
             dateOfLoss |-> OrPrev(r.clientInfo.dateOfLoss, prev.caseInfo.dateOfLoss)],
        !.suggestedContent =
            [natureOfClaim |-> r.globalAnalysis.natureOfClaim,
             facts |-> r.globalAnalysis.facts]]

\* handleApiResponse(response), on the letter data `prev`.
HandleApiResponse(prev, r) ==
    /\ sessionExhibits' = r.exhibits
    /\ letterData' = LetterAfterResponse(prev, r)

\* A mutation of the answer: the selected files are cleared whatever the
\* answer was.
ClearsSelectionAlways(success, hasNewFiles) == hasNewFiles

\* if (result.success) { ...; if (hasNewFiles) setSelectedFiles([]) }
ClearsSelection(success, hasNewFiles) == success /\ hasNewFiles

\* handleProcessFiles from the answer of the fetch to the end; `threw` is a
\* fetch or a response.json() that throws.
ProcessFilesAnswered(body, threw) ==
    /\ ops < MaxOps
    /\ ops' = ops + 1
    /\ inFlight > 0
    /\ IF ~threw /\ body.success
       THEN HandleApiResponse(letterData, body)
       ELSE UNCHANGED <<sessionExhibits, letterData>>
    /\ IF ClearsSelection(~threw /\ body.success, formData.pdfs # <<>>)
       THEN selectedFiles' = <<>>
       ELSE UNCHANGED selectedFiles
    /\ lastAlert' = IF threw THEN "Failed to upload and process files"
                    ELSE IF ~body.success THEN "Error processing PDFs: "
                    ELSE lastAlert
    /\ isUploading' = FALSE
    /\ inFlight' = inFlight - 1
    /\ formData' = NoFormData
    /\ UNCHANGED <<serverVars, aggVars, exportVars, retryVars, layoutVars, managerVars>>

\* What the user types into the case information inputs: a name, or the
\* field cleared.
TypedValues == {"John Smith", ""}

\* The inputs typed into; the other two inputs are bound in the same way.
TypedFields == {"client", "claimNumber"}

\* updateCaseInfo(field, value): onChange of a case information input.
UpdateCaseInfo(field, value) ==
    /\ ops < MaxOps
    /\ ops' = ops + 1
    /\ letterData.caseInfo[field] # value
    /\ letterData' = [letterData EXCEPT !.caseInfo = [@ EXCEPT ![field] = value]]
    /\ UNCHANGED <<selectedFiles, isUploading, inFlight, lastAlert, formData, sessionExhibits>>
    /\ UNCHANGED <<serverVars, aggVars, exportVars, retryVars, layoutVars, managerVars>>

\* Sidebar.removeExhibit(index); the button is disabled while uploading.
RemoveExhibit(index) ==
    /\ ops < MaxOps
    /\ ops' = ops + 1
    /\ ~isUploading
    /\ index \in DOMAIN sessionExhibits
    /\ LET updatedExhibits == RemoveAt(sessionExhibits, index)
           newTotal == SumSeq([i \in 1..Len(updatedExhibits) |-> updatedExhibits[i].expenses])
           updatedLetterData == [letterData EXCEPT !.totalMedicalExpenses = newTotal]
           updatedApiResponse ==
               [success |-> TRUE, exhibits |-> updatedExhibits, totalExpenses |-> newTotal,
                globalAnalysis |-> IF letterData.apiData.present
                                   THEN letterData.apiData.globalAnalysis
                                   ELSE EmptyGlobalAnalysis,
                hasClientInfo |-> TRUE,
                clientInfo |-> IF letterData.apiData.present /\ letterData.apiData.hasClientInfo
                               THEN letterData.apiData.clientInfo
                               ELSE NullClientInfo]
       IN  IF updatedExhibits # <<>>
           THEN HandleApiResponse(updatedLetterData, updatedApiResponse)
           ELSE HandleApiResponse(updatedLetterData, EmptyApiResponse)
    /\ UNCHANGED <<selectedFiles, isUploading, inFlight, lastAlert, formData>>
    /\ UNCHANGED <<serverVars, aggVars, exportVars, retryVars, layoutVars, managerVars>>

\* ---------------------------------------------------------- ExhibitManager
\* A title as typed: words and blanks.
EditingTitles == {<<" ", " ">>, <<" ", "Police report", " ">>}

\* String.prototype.trim()
RECURSIVE Trim(_)
Trim(t) ==
    IF t = <<>> THEN t
    ELSE IF Head(t) = " " THEN Trim(Tail(t))
    ELSE IF t[Len(t)] = " " THEN Trim(SubSeq(t, 1, Len(t) - 1))
    ELSE t

\* A mutation of the saved exhibit: the spread of the old exhibit is lost.
WithHeadingOnly(e, heading) ==
    [fileName |-> e.fileName, heading |-> heading, summary |-> <<"">>,
     expenses |-> 0, clientInfo |-> NullClientInfo, images |-> <<>>]

\* { ...exhibit, heading }
WithHeading(e, heading) == [e EXCEPT !.heading = heading]

\* handleSaveEdit(index), with the title typed since handleStartEdit(index);
\* the save button exists on the row being edited only.
HandleSaveEdit(index, editingTitle) ==
    /\ ops < MaxOps
    /\ ops' = ops + 1
    /\ index \in DOMAIN sessionExhibits
    /\ IF Trim(editingTitle) # <<>>
       THEN sessionExhibits' =
                [sessionExhibits EXCEPT ![index] = WithHeading(@, Trim(editingTitle))]
       ELSE UNCHANGED sessionExhibits
    /\ UNCHANGED <<selectedFiles, isUploading, inFlight, lastAlert, formData, letterData>>
    /\ UNCHANGED <<serverVars, aggVars, exportVars, retryVars, layoutVars, managerVars>>

\* handleDeleteExhibit(index); `confirmed` is the answer to confirm().
HandleDeleteExhibit(index, confirmed) ==
    /\ ops < MaxOps
    /\ ops' = ops + 1
    /\ index \in DOMAIN sessionExhibits
    /\ IF confirmed
       THEN sessionExhibits' = RemoveAt(sessionExhibits, index)
       ELSE UNCHANGED sessionExhibits
    /\ UNCHANGED <<selectedFiles, isUploading, inFlight, lastAlert, formData, letterData>>
    /\ UNCHANGED <<serverVars, aggVars, exportVars, retryVars, layoutVars, managerVars>>

\* moveExhibit(index, direction)
MoveExhibit(index, direction) ==
    /\ ops < MaxOps
    /\ ops' = ops + 1
    /\ index \in DOMAIN sessionExhibits
    /\ IF \/ direction = "up" /\ index = 1
          \/ direction = "down" /\ index = Len(sessionExhibits)
       THEN UNCHANGED sessionExhibits
       ELSE LET targetIndex == IF direction = "up" THEN index - 1 ELSE index + 1
            IN  sessionExhibits' =
                    [sessionExhibits EXCEPT ![index] = sessionExhibits[targetIndex],
                                            ![targetIndex] = sessionExhibits[index]]
    /\ UNCHANGED <<selectedFiles, isUploading, inFlight, lastAlert, formData, letterData>>
    /\ UNCHANGED <<serverVars, aggVars, exportVars, retryVars, layoutVars, managerVars>>

\* splice(index, 0, item)
InsertAt(seq, index, item) ==
    SubSeq(seq, 1, index - 1) \o <<item>> \o SubSeq(seq, index, Len(seq))

\* handleDragOver(e, index) while the row draggedIndex is dragged.
HandleDragOver(draggedIndex, index) ==
    /\ ops < MaxOps
    /\ ops' = ops + 1
    /\ draggedIndex \in DOMAIN sessionExhibits
    /\ index \in DOMAIN sessionExhibits
    /\ draggedIndex # index
    /\ sessionExhibits' =
           InsertAt(RemoveAt(sessionExhibits, draggedIndex), index, sessionExhibits[draggedIndex])
    /\ UNCHANGED <<selectedFiles, isUploading, inFlight, lastAlert, formData, letterData>>
    /\ UNCHANGED <<serverVars, aggVars, exportVars, retryVars, layoutVars, managerVars>>

\* ------------------------------------------------------------- EditSidebar
\* The sections of the global analysis, and the exhibit sections exhibit-N.
MainSections == {"natureOfClaim", "facts"}

ExhibitSections == {[kind |-> "exhibit", index |-> k] : k \in 0..(MaxFiles - 1)}

\* The edited content, by lines.
EditContents == {<<"Police report">>, <<"Police report", "Officer's narrative">>}

\* updateSection() on the section exhibit-N: the first line is the heading,
\* the rest is the summary.
UpdateExhibitSection(section, editContent) ==
    /\ ops < MaxOps
    /\ ops' = ops + 1
    /\ section \in ExhibitSections
    /\ LET exhibitIndex == section.index + 1
       IN  IF exhibitIndex \in DOMAIN sessionExhibits
           THEN sessionExhibits' =
                    [sessionExhibits EXCEPT
                        ![exhibitIndex] =
                            [@ EXCEPT !.heading = <<Head(editContent)>>,
                                      !.summary = IF Len(editContent) > 1
                                                  THEN Tail(editContent)
                                                  ELSE <<"">>]]
           ELSE UNCHANGED sessionExhibits
    /\ UNCHANGED <<selectedFiles, isUploading, inFlight, lastAlert, formData, letterData>>
    /\ UNCHANGED <<serverVars, aggVars, exportVars, retryVars, layoutVars, managerVars>>

\* updateSection() on a section of the analysis: the content is written to
\* suggestedContent and to apiData.globalAnalysis.
UpdateMainSection(section, editContent) ==
    /\ ops < MaxOps
    /\ ops' = ops + 1
    /\ section \in MainSections
    /\ LET globalAnalysis == IF letterData.apiData.present
                             THEN letterData.apiData.globalAnalysis
                             ELSE BlankGlobalAnalysis
       IN  letterData' =
               [letterData EXCEPT
                   !.suggestedContent = [@ EXCEPT ![section] = editContent],
                   !.apiData = [@ EXCEPT !.present = TRUE,
                                         !.globalAnalysis =
                                             [globalAnalysis EXCEPT ![section] = editContent]]]
    /\ UNCHANGED <<selectedFiles, isUploading, inFlight, lastAlert, formData, sessionExhibits>>
    /\ UNCHANGED <<serverVars, aggVars, exportVars, retryVars, layoutVars, managerVars>>

SessionNext ==
    \/ \E batch \in Batches : HandleFileSelect(batch)
    \/ \E batch \in Batches : HandleDrop(batch)
    \/ \E index \in 1..MaxFiles : RemoveSelectedFile(index)
    \/ HandleProcessFiles
    \/ \E body \in ResponseBodies(formData) : ProcessFilesAnswered(body, FALSE)
    \/ ProcessFilesAnswered(FailureBody, TRUE)
    \/ \E index \in 1..MaxFiles : RemoveExhibit(index)
    \/ \E index \in 1..MaxFiles, title \in EditingTitles : HandleSaveEdit(index, title)
    \/ \E index \in 1..MaxFiles, confirmed \in BOOLEAN : HandleDeleteExhibit(index, confirmed)
    \/ \E index \in 1..MaxFiles, direction \in {"up", "down"} : MoveExhibit(index, direction)
    \/ \E draggedIndex \in 1..MaxFiles, index \in 1..MaxFiles : HandleDragOver(draggedIndex, index)
    \/ \E section \in ExhibitSections, content \in EditContents :
            UpdateExhibitSection(section, content)
    \/ \E section \in MainSections : UpdateMainSection(section, "Edited text")
    \/ \E field \in TypedFields, value \in TypedValues : UpdateCaseInfo(field, value)

\* -------------------------------------------------------- the Word export
GeneralDamagesTotal == 300000

\* The parts of a paragraph's text: literal text, or n.toLocaleString().
Txt(s) == [kind |-> "text", s |-> s, n |-> 0]
Amt(n) == [kind |-> "amount", s |-> "", n |-> n]

Para(parts, bold) == [text |-> parts, bold |-> bold]

\* new Paragraph({ spacing })
SpacingPara == Para(<<>>, FALSE)

StringContent(lines) == [NoContent EXCEPT !.kind = "string", !.lines = lines]

ArrayContent(items) == [NoContent EXCEPT !.kind = "array", !.lines = items]

Category(total, items) == [present |-> TRUE, total |-> total, items |-> items]

Breakdown(special, future, general) ==
    [NoContent EXCEPT !.kind = "breakdown", !.specialDamages = special,
                      !.futureMedicalExpenses = future, !.generalDamages = general]

\* The damages a letter can carry.
DamagesContents ==
    { NoContent,
      StringContent(<<>>),
      StringContent(<<"Medical bills and pain and suffering">>),
      StringContent(<<"Medical bills", " ", "Pain and suffering">>),
      ArrayContent(<<"Medical bills", "Lost wages", "Pain", "Suffering">>),
      Breakdown(Category(750, <<[description |-> "ER visit", amount |-> 500],
                                [description |-> "MRI", amount |-> 250]>>),
                NoCategory,
                Category(100000, <<"Pain and suffering">>)),
      Breakdown(Category(500, <<[description |-> "ER visit", amount |-> 500]>>),
                Category(2000, <<[description |-> "Physical therapy", amount |-> 2000]>>),
                NoCategory) }

FactsContents ==
    { NoContent, StringContent(<<>>), StringContent(<<"Rear-end collision", " ", "ER the same day">>),
      ArrayContent(<<"Rear-end collision", "ER the same day">>) }

StaleSuggestedContent ==
    [damages |-> StringContent(<<"Suggested damages">>),
     facts |-> StringContent(<<"Suggested facts">>)]

\* The bodies of the export requests: the letter has apiData or only
\* suggested content.
ExportBodies ==
    { [apiData |-> [present |-> hasApi,
                    globalAnalysis |-> IF hasApi THEN [damages |-> d, facts |-> f]
                                       ELSE NoSections],
       suggestedContent |-> IF hasApi THEN StaleSuggestedContent
                            ELSE [damages |-> d, facts |-> f],
       totalMedicalExpenses |-> t,
       pleadingPaper |-> pp] :
        hasApi \in BOOLEAN, d \in DamagesContents, f \in FactsContents,
        t \in {0, 500, 750}, pp \in BOOLEAN }

\* The keys of the data source, in its order.
SectionKeys == <<"damages", "facts">>

\* getDynamicSections(): the keys of apiData.globalAnalysis, or else of
\* suggestedContent, whose content is not undefined, null or "".
GetDynamicSections(letter) ==
    LET dataSource == IF letter.apiData.present THEN letter.apiData.globalAnalysis
                      ELSE letter.suggestedContent
        kept(key) == /\ dataSource[key].kind # "undefined"
                     /\ ~(dataSource[key].kind = "string" /\ dataSource[key].lines = <<>>)
        keys == SelectSeq(SectionKeys, kept)
    IN  [i \in 1..Len(keys) |-> [key |-> keys[i], content |-> dataSource[keys[i]]]]

\* A mutation of the conversion: the string is kept as the one item.
ParseStringDamagesKeepingText(damagesString, letter) ==
    [NoContent EXCEPT !.kind = "array", !.lines = damagesString.lines]

\* parseStringDamages(damagesString)
ParseStringDamages(damagesString, letter) ==
    Breakdown(Category(letter.totalMedicalExpenses,
                       <<[description |-> "Past medical expenses (see exhibits for details)",
                          amount |-> letter.totalMedicalExpenses]>>),
              NoCategory,
              Category(GeneralDamagesTotal,
                       <<"Pain and suffering", "Loss of enjoyment of life",
                         "Emotional distress">>))

\* String.fromCharCode(97 + index)
Letters == <<"a", "b", "c">>

SpecialDamagesParagraphs(c) ==
    IF ~c.present THEN <<>>
    ELSE <<Para(<<Txt("1.  Special Damages - $"), Amt(c.total)>>, TRUE)>>
           \o [i \in 1..Len(c.items) |->
                  Para(<<Txt("     o  "), Txt(c.items[i].description), Txt(": $"),
                         Amt(c.items[i].amount)>>, FALSE)]
           \o <<Para(<<Txt("     o  Total Past Medical Expenses: $"), Amt(c.total)>>, FALSE)>>

FutureMedicalParagraphs(c, spacing) ==
    IF ~c.present THEN <<>>
    ELSE <<Para(<<Txt("2.  Future Medical Expenses - $"), Amt(c.total)>>, TRUE)>>
           \o [i \in 1..Len(c.items) |->
                  Para(<<Txt("     "), Txt(Letters[i]), Txt(".  "),
                         Txt(c.items[i].description), Txt(": $"),
                         Amt(c.items[i].amount)>>, FALSE)]
           \o (IF spacing THEN <<SpacingPara>> ELSE <<>>)

GeneralDamagesParagraphs(c) ==
    IF ~c.present THEN <<>>
    ELSE <<Para(<<Txt("3.  General Damages - $"), Amt(c.total)>>, TRUE)>>
           \o [i \in 1..Len(c.items) |->
                  Para(<<Txt("     "), Txt(Letters[i]), Txt(".  "), Txt(c.items[i])>>, FALSE)]

\* The body of the damages section: a string is converted first; what has
\* no category of a breakdown yields no paragraph.
DamagesParagraphs(content, letter, spacing) ==
    LET structuredDamages == IF content.kind = "string"
                             THEN ParseStringDamages(content, letter)
                             ELSE content
    IN  SpecialDamagesParagraphs(structuredDamages.specialDamages)
          \o FutureMedicalParagraphs(structuredDamages.futureMedicalExpenses, spacing)
          \o GeneralDamagesParagraphs(structuredDamages.generalDamages)

\* The body of another section: one bullet per item of an array, one
\* paragraph per line of a string that is not blank.
TextParagraphs(content) ==
    IF content.kind = "array"
    THEN [i \in 1..Len(content.lines) |->
             Para(<<Txt("* "), Txt(content.lines[i])>>, FALSE)]
    ELSE LET paragraphs == SelectSeq(content.lines, LAMBDA line : line # " ")
         IN  [i \in 1..Len(paragraphs) |-> Para(<<Txt(paragraphs[i])>>, FALSE)]

\* The title paragraph of a section and its body.
SectionParagraphs(section, letter, upperCase, spacing) ==
    <<Para(<<Txt(IF upperCase THEN "TITLE " ELSE "Title "), Txt(section.key)>>, TRUE)>>
      \o (IF section.key = "damages"
          THEN DamagesParagraphs(section.content, letter, spacing)
          ELSE TextParagraphs(section.content))

RECURSIVE AllSectionParagraphs(_, _, _, _)
AllSectionParagraphs(sections, letter, upperCase, spacing) ==
    IF sections = <<>> THEN <<>>
    ELSE SectionParagraphs(Head(sections), letter, upperCase, spacing)
           \o AllSectionParagraphs(Tail(sections), letter, upperCase, spacing)

DemandParagraphs(amount, allClaims) ==
    <<Para(<<Txt("DEMAND")>>, TRUE),
      Para(<<Txt("Based on the foregoing, we demand payment in the amount of $"), Amt(amount),
             Txt(IF allClaims THEN " to settle all claims" ELSE " to settle claims")>>, FALSE)>>

\* buildRegularFormatSections(), from the dynamic sections on.
BuildRegularFormatSections(letter) ==
    AllSectionParagraphs(GetDynamicSections(letter), letter, FALSE, TRUE)
      \o DemandParagraphs(letter.totalMedicalExpenses, TRUE)

\* The settlement demand of the format without pleading paper: the special
\* damages total of the damages section, or else totalMedicalExpenses.
DemandAmount(letter) ==
    LET sections == GetDynamicSections(letter)
        damagesSections == SelectSeq(sections, LAMBDA sec : sec.key = "damages")
    IN  IF damagesSections = <<>> THEN letter.totalMedicalExpenses
        ELSE LET content == damagesSections[1].content
                 structuredDamages == IF content.kind = "string"
                                      THEN ParseStringDamages(content, letter)
                                      ELSE content
             IN  IF structuredDamages.specialDamages.present
                 THEN structuredDamages.specialDamages.total
                 ELSE letter.totalMedicalExpenses

\* A row of the pleading paper table: the line number and the paragraph.
PleadingRows(paragraphs) ==
    [i \in 1..Len(paragraphs) |->
        [lineNumber |-> i, text |-> paragraphs[i].text, bold |-> paragraphs[i].bold]]

NoLineNumbers(paragraphs) ==
    [i \in 1..Len(paragraphs) |->
        [lineNumber |-> 0, text |-> paragraphs[i].text, bold |-> paragraphs[i].bold]]

\* A request reaches the export endpoint.
ExportRequested(body) ==
    /\ exportPc = "idle"
    /\ exportPc' = "received"
    /\ exportBody' = body
    /\ UNCHANGED documentSections
    /\ UNCHANGED <<serverVars, aggVars, sessionVars, retryVars, layoutVars, managerVars>>

\* POST of export-word: the document sections, from the dynamic sections on.
ExportPOST ==
    /\ exportPc = "received"
    /\ exportPc' = "done"
    /\ documentSections' =
           IF exportBody.pleadingPaper
           THEN PleadingRows(BuildRegularFormatSections(exportBody))
           ELSE NoLineNumbers(
                    AllSectionParagraphs(GetDynamicSections(exportBody), exportBody, TRUE, FALSE)
                      \o DemandParagraphs(DemandAmount(exportBody), FALSE))
    /\ UNCHANGED exportBody
    /\ UNCHANGED <<serverVars, aggVars, sessionVars, retryVars, layoutVars, managerVars>>

ExportNext ==
    \/ \E body \in ExportBodies : ExportRequested(body)
    \/ ExportPOST

\* ------------------------------------------------- one call of retryApiCall
\* The messages of the errors the attempts of one call can throw.
RetryErrorMessages ==
    ErrorMessages \cup {"429 Too Many Requests", "503 Service Unavailable", "Request timed out"}

RetryOutcomes == {Threw(m) : m \in RetryErrorMessages} \cup {Returned(<<Fence>>)}

\* A mutation of the rethrow: the error of the first attempt is thrown.
ThrownErrorFirst(log, error) == log[1]

\* throw error: the error the catch block of this attempt caught.
ThrownError(log, error) == error

\* The attempt in progress ends with `out`: the call returns its result, or
\* the catch block logs the error and rethrows it or sets the timer.
RetryAttemptEnds(out) ==
    /\ retryPc = "calling"
    /\ LET decision == RetryDecision(retryAttempt, out.kind = "throw")
           log == IF out.kind = "throw" THEN Append(retryLog, out.message) ELSE retryLog
       IN  /\ retryLog' = log
           /\ CASE decision = "return" ->
                      /\ retryPc' = "returned"
                      /\ retryEnd' = out
                      /\ UNCHANGED retryWaits
                [] decision = "throw" ->
                      /\ retryPc' = "thrown"
                      /\ retryEnd' = Threw(ThrownError(log, out.message))
                      /\ UNCHANGED retryWaits
                [] decision = "retry" ->
                      /\ retryPc' = "waiting"
                      /\ retryWaits' = Append(retryWaits, retryDelay)
                      /\ UNCHANGED retryEnd
    /\ UNCHANGED <<retryAttempt, retryDelay>>
    /\ UNCHANGED <<serverVars, aggVars, sessionVars, exportVars, layoutVars, managerVars>>

\* The timer fires: the delay grows and the loop issues the next attempt.
RetryTimerFires ==
    /\ retryPc = "waiting"
    /\ retryDelay' = NextDelay(retryDelay)
    /\ retryAttempt' = retryAttempt + 1
    /\ retryPc' = "calling"
    /\ UNCHANGED <<retryLog, retryWaits, retryEnd>>
    /\ UNCHANGED <<serverVars, aggVars, sessionVars, exportVars, layoutVars, managerVars>>

RetryNext ==
    \/ \E out \in RetryOutcomes : RetryAttemptEnds(out)
    \/ RetryTimerFires

\* ---------------------------------------------- the pleading paper layout
\* Strings are sequences of characters here.
MaxText == 8

MaxLineLength == 4

\* The texts wrapped: letters and blanks, in every arrangement.
Texts == SeqsUpTo({"a", " "}, MaxText)

CONTENT_WIDTH == 58

\* text.split(" "): "" gives one empty word, n blanks give n + 1 words.
RECURSIVE Split(_)
Split(text) ==
    IF \A i \in DOMAIN text : text[i] # " " THEN <<text>>
    ELSE LET i == CHOOSE k \in DOMAIN text :
                      text[k] = " " /\ \A j \in 1..(k - 1) : text[j] # " "
         IN  <<SubSeq(text, 1, i - 1)>> \o Split(SubSeq(text, i + 1, Len(text)))

\* words.forEach(...) of wrapTextToLines from the word Head(words) on, and
\* the push of the last line.
RECURSIVE WrapWords(_, _, _, _)
WrapWords(words, lines, currentLine, maxLength) ==
    IF words = <<>>
    THEN IF currentLine # <<>> THEN Append(lines, Trim(currentLine)) ELSE lines
    ELSE LET word == Head(words)
         IN  IF Len(currentLine) + 1 + Len(word) > maxLength
             THEN IF currentLine # <<>>
                  THEN WrapWords(Tail(words), Append(lines, Trim(currentLine)), word, maxLength)
                  ELSE WrapWords(Tail(words), Append(lines, word), currentLine, maxLength)
             ELSE WrapWords(Tail(words), lines,
                            currentLine \o (IF currentLine # <<>> THEN <<" ">> ELSE <<>>) \o word,
                            maxLength)

\* A mutation of the wrapping: the text is returned as one line.
WrapTextToLinesUnwrapped(text, maxLength) ==
    IF Trim(text) # <<>> THEN <<Trim(text)>> ELSE <<>>

\* wrapTextToLines(text, maxLength)
WrapTextToLines(text, maxLength) == WrapWords(Split(text), <<>>, <<>>, maxLength)

\* wrapTextToLines is called.
WrapCalled(text, maxLength) ==
    /\ layoutPc = "idle"
    /\ layoutPc' = "wrap"
    /\ layoutText' = text
    /\ layoutMaxLength' = maxLength
    /\ UNCHANGED <<layoutLines, pleadingVersion, textLines, pleadingParagraphs>>
    /\ UNCHANGED <<serverVars, aggVars, sessionVars, exportVars, retryVars, managerVars>>

\* wrapTextToLines returns.
WrapReturns ==
    /\ layoutPc = "wrap"
    /\ layoutPc' = "wrapped"
    /\ layoutLines' = WrapTextToLines(layoutText, layoutMaxLength)
    /\ UNCHANGED <<layoutText, layoutMaxLength, pleadingVersion, textLines, pleadingParagraphs>>
    /\ UNCHANGED <<serverVars, aggVars, sessionVars, exportVars, retryVars, managerVars>>

\* The number of lines given to createPleadingContent.
MaxLines == 3

\* LINE_LENGTH_LIMIT of the earlier createPleadingContent.
LINE_LENGTH_LIMIT == 80

Word(n) == [i \in 1..n |-> "x"]

\* The lines of the content: empty, blank, one word, two words that fill
\* the content width exactly, two that exceed it, a word wider than any
\* line, and words with blanks around and between them.
PleadingLines ==
    { <<>>,
      <<" ", " ">>,
      Word(30),
      Word(30) \o <<" ">> \o Word(27),
      Word(30) \o <<" ">> \o Word(30),
      Word(85) \o <<" ">> \o Word(30),
      <<" ">> \o Word(30) \o <<" ", " ">> \o Word(30) \o <<" ">> }

\* padEnd(width, " ")
PadEnd(t, width) == t \o [i \in 1..(width - Len(t)) |-> " "]

\* A mutation of the counter: lineNumber++ once for each input line.
NextLineNumberPerInputLine(lineNumber, emitted) == lineNumber + 1

\* lineNumber++ after each paragraph pushed.
NextLineNumber(lineNumber, emitted) == lineNumber + emitted

\* The lines one input line is wrapped to: the earlier version wraps the
\* line as it is at the default limit, the later one the trimmed line at
\* CONTENT_WIDTH.
WrappedLines(line, version) ==
    IF version = "tables" THEN WrapTextToLines(line, LINE_LENGTH_LIMIT)
    ELSE WrapTextToLines(Trim(line), CONTENT_WIDTH)

\* The content of one numbered line.
LineContent(wrappedLine, version) ==
    IF version = "tables" THEN wrappedLine
    ELSE PadEnd(Trim(wrappedLine), CONTENT_WIDTH)

\* textLines.forEach(...) of createPleadingContent from Head(lines) on.
RECURSIVE PleadingFrom(_, _, _, _)
PleadingFrom(lines, pushed, lineNumber, version) ==
    IF lines = <<>> THEN pushed
    ELSE LET line == Head(lines)
         IN  IF Trim(line) # <<>>
             THEN LET wrappedLines == WrappedLines(line, version)
                      numbered ==
                          [k \in 1..Len(wrappedLines) |->
                              [lineNumber |-> NextLineNumber(lineNumber, k - 1),
                               content |-> LineContent(wrappedLines[k], version)]]
                  IN  PleadingFrom(Tail(lines), pushed \o numbered,
                                   NextLineNumber(lineNumber, Len(wrappedLines)), version)
             ELSE PleadingFrom(Tail(lines),
                               Append(pushed, [lineNumber |-> lineNumber,
                                               content |-> LineContent(<<>>, version)]),
                               NextLineNumber(lineNumber, 1), version)

\* createPleadingContent(textLines)
CreatePleadingContent(lines, version) == PleadingFrom(lines, <<>>, 1, version)

\* createPleadingContent is called.
PleadingCalled(lines, version) ==
    /\ layoutPc = "idle"
    /\ layoutPc' = "pleading"
    /\ textLines' = lines
    /\ pleadingVersion' = version
    /\ UNCHANGED <<layoutText, layoutMaxLength, layoutLines, pleadingParagraphs>>
    /\ UNCHANGED <<serverVars, aggVars, sessionVars, exportVars, retryVars, managerVars>>

\* createPleadingContent returns.
PleadingReturns ==
    /\ layoutPc = "pleading"
    /\ layoutPc' = "pleaded"
    /\ pleadingParagraphs' = CreatePleadingContent(textLines, pleadingVersion)
    /\ UNCHANGED <<layoutText, layoutMaxLength, layoutLines, pleadingVersion, textLines>>
    /\ UNCHANGED <<serverVars, aggVars, sessionVars, exportVars, retryVars, managerVars>>

LayoutNext ==
    \/ \E text \in Texts, maxLength \in 0..MaxLineLength : WrapCalled(text, maxLength)
    \/ WrapReturns
    \/ \E lines \in SeqsUpTo(PleadingLines, MaxLines), version \in {"tables", "paragraphs"} :
            PleadingCalled(lines, version)
    \/ PleadingReturns

\* ------------------------------------------- ExhibitManager, image upload
\* The number of image uploads of one session that are followed.
MaxUploads == 2

\* The files of the image input: an image, an image over 5 MB, and a file
\* that is no image.
ImageFiles ==
    { [name |-> "scan.png", image |-> TRUE, large |-> FALSE],
      [name |-> "poster.png", image |-> TRUE, large |-> TRUE],
      [name |-> "notes.txt", image |-> FALSE, large |-> FALSE] }

ImageBatches == {<<f>> : f \in ImageFiles} \cup {<<f, g>> : f, g \in ImageFiles}

\* The files that pass the validation loop, as the data URLs read from them.
ValidImages(batch) ==
    LET validFiles == SelectSeq(batch, LAMBDA f : f.image /\ ~f.large)
    IN  [i \in 1..Len(validFiles) |-> validFiles[i].name]

\* onChange of the select.
SelectExhibitForImage(index) ==
    /\ sessionExhibits # <<>>
    /\ index \in 0..(Len(sessionExhibits) - 1)
    /\ index # selectedExhibitForImage
    /\ ops < MaxOps
    /\ ops' = ops + 1
    /\ selectedExhibitForImage' = index
    /\ UNCHANGED <<imageReads, uploads>>
    /\ UNCHANGED <<selectedFiles, isUploading, inFlight, lastAlert, formData, sessionExhibits, letterData>>
    /\ UNCHANGED <<serverVars, aggVars, exportVars, retryVars, layoutVars>>

\* handleImageUpload(e) up to Promise.all: the callback that will run holds
\* the exhibits and the selected index of this render.
HandleImageUpload(batch) ==
    /\ sessionExhibits # <<>>
    /\ uploads < MaxUploads
    /\ ops < MaxOps
    /\ ops' = ops + 1
    /\ uploads' = uploads + 1
    /\ IF ValidImages(batch) = <<>>
       THEN UNCHANGED imageReads
       ELSE imageReads' = Append(imageReads,
                                 [exhibits |-> sessionExhibits,
                                  selectedExhibitForImage |-> selectedExhibitForImage,
                                  base64Images |-> ValidImages(batch)])
    /\ UNCHANGED selectedExhibitForImage
    /\ UNCHANGED <<selectedFiles, isUploading, inFlight, lastAlert, formData, sessionExhibits, letterData>>
    /\ UNCHANGED <<serverVars, aggVars, exportVars, retryVars, layoutVars>>

\* newExhibits of the callback of Promise.all.
ExhibitsWithImages(read) ==
    [read.exhibits EXCEPT
        ![read.selectedExhibitForImage + 1] = [@ EXCEPT !.images = @ \o read.base64Images]]

\* The files of upload k are read: the callback of Promise.all runs.  With
\* an index outside the exhibits it held, it throws before it updates.
ImagesRead(k) ==
    /\ k \in DOMAIN imageReads
    /\ LET read == imageReads[k]
       IN  IF read.selectedExhibitForImage + 1 \in DOMAIN read.exhibits
           THEN sessionExhibits' = ExhibitsWithImages(read)
           ELSE UNCHANGED sessionExhibits
    /\ imageReads' = RemoveAt(imageReads, k)
    /\ UNCHANGED <<selectedExhibitForImage, uploads>>
    /\ UNCHANGED <<selectedFiles, isUploading, inFlight, lastAlert, formData, letterData, ops>>
    /\ UNCHANGED <<serverVars, aggVars, exportVars, retryVars, layoutVars>>

ManagerNext ==
    \/ \E batch \in Batches : HandleFileSelect(batch)
    \/ HandleProcessFiles
    \/ \E body \in ResponseBodies(formData) : ProcessFilesAnswered(body, FALSE)
    \/ \E index \in 1..MaxFiles, title \in EditingTitles : HandleSaveEdit(index, title)
    \/ \E index \in 1..MaxFiles, confirmed \in BOOLEAN : HandleDeleteExhibit(index, confirmed)
    \/ \E index \in 1..MaxFiles, direction \in {"up", "down"} : MoveExhibit(index, direction)
    \/ \E draggedIndex \in 1..MaxFiles, index \in 1..MaxFiles : HandleDragOver(draggedIndex, index)
    \/ \E index \in 0..(MaxFiles - 1) : SelectExhibitForImage(index)
    \/ \E batch \in ImageBatches : HandleImageUpload(batch)
    \/ \E k \in 1..MaxUploads : ImagesRead(k)

\* The endpoint is idle while the other components are looked at.
ServerQuiet ==
    /\ apiKey
    /\ handler = "sequential"
    /\ request = [pdfs |-> <<>>, existingExhibits |-> <<>>, keepFiles |-> <<>>,
                  reprocessAll |-> FALSE]

\* The state after construction outside the endpoint, the endpoint idle.
QuietInit == Init /\ ServerQuiet

AggSpec == QuietInit /\ [][AggNext]_vars

SessionSpec == QuietInit /\ [][SessionNext]_vars

ExportSpec == QuietInit /\ [][ExportNext]_vars

RetrySpec == QuietInit /\ [][RetryNext]_vars

LayoutSpec == QuietInit /\ [][LayoutNext]_vars

ManagerSpec == QuietInit /\ [][ManagerNext]_vars

\* ================================================================== claims
Done == pc = "done"

Success == response.status = 200

Failed(i) == i \in DOMAIN task /\ task[i] = "caught"

Succeeded(i) == i \in DOMAIN task /\ task[i] \in {"pause", "fulfilled"}

InFlight(i) == i \in DOMAIN task /\ task[i] \in {"calling", "backoff"}

ParsesAsJson(out) == out.kind = "text" /\ JSONparse(StripFences(out.text)).ok

\* C1: in every success response totalExpenses is the sum of the expenses of
\* the returned exhibits, and every exhibit of a failed extraction has
\* expenses 0.
C1_TotalIsSumOfExpenses ==
    Success =>
        /\ response.totalExpenses
             = SumSeq([i \in 1..Len(response.exhibits) |-> response.exhibits[i].expenses])
        /\ \A i \in DOMAIN task : task[i] = "caught" => response.exhibits[i].expenses = 0

\* A success response with the exhibit of a failed extraction and an exhibit
\* that carries expenses.
C1_Witness ==
    /\ Success
    /\ \E i \in DOMAIN response.exhibits : Failed(i)
    /\ \E i \in DOMAIN response.exhibits : response.exhibits[i].expenses > 0
    /\ response.totalExpenses > 0

\* C2: the failure of one file's extraction aborts neither the extraction of
\* the other files nor the request: no response is returned after it before
\* every file has had its model call and its exhibit and the global analysis
\* has been called, and under fair scheduling the global analysis is called.
C2_NoAbortInv ==
    (\E i \in DOMAIN task : task[i] = "caught") =>
        /\ response # NoResponse =>
              /\ globalCalls >= 1
              /\ \A j \in DOMAIN task : calls[j] >= 1 /\ task[j] \in {"fulfilled", "caught"}
              /\ Len(exhibits) = Len(files)
        /\ response.status \in {0, 200} \/ response.error = "Processing failed"

C2_FailureIsContained ==
    /\ []C2_NoAbortInv
    /\ \A i \in 1..MaxFiles :
          Failed(i) ~> (globalCalls >= 1 /\ \A j \in DOMAIN task : calls[j] >= 1)

\* The first of two files failed, the second was extracted and the request
\* succeeded.
C2_Witness ==
    /\ Len(files) >= 2
    /\ Failed(1)
    /\ Succeeded(2)
    /\ Success

\* C3: when the global analysis fails (the call throws on the last attempt,
\* or its text does not parse), the request ends with { error, details } and
\* a non-2xx status; a response carries a globalAnalysis only when it is a
\* success response, and then the parsed analysis of the model.
C3_GlobalFailureStep ==
    \A out \in GlobalOutcomes :
        (GlobalReturn(out) /\ pc' = "done" /\ ~ParsesAsJson(out)) =>
            /\ response'.status >= 300
            /\ response'.keys = {"error", "details"}
            /\ response'.error = "Processing failed"
            /\ response'.details = IF out.kind = "throw" THEN out.message ELSE SyntaxErrorMessage

C3_NoPartialAnalysis ==
    /\ "globalAnalysis" \in response.keys => Success /\ response.globalAnalysis \in GlobalData
    /\ Success => "globalAnalysis" \in response.keys

C3_GlobalFailureFailsRequest ==
    /\ [][C3_GlobalFailureStep]_vars
    /\ []C3_NoPartialAnalysis

\* Every extraction succeeded and the request failed in the global analysis.
C3_Witness ==
    /\ Len(files) >= 2
    /\ \A i \in DOMAIN task : task[i] = "fulfilled"
    /\ globalCalls >= 1
    /\ Done
    /\ response.status = 500

\* C4: the global model call is issued only when every extraction has
\* settled: while it is in flight or done, no extraction call is in flight
\* or still to come, and no extraction call is issued after it.
C4_BarrierInv ==
    globalCalls >= 1 =>
        /\ Len(task) = Len(files)
        /\ \A i \in DOMAIN task : task[i] \in {"fulfilled", "caught"} /\ calls[i] >= 1

C4_GlobalAfterExtractions ==
    /\ []C4_BarrierInv
    /\ [][globalCalls >= 1 => calls' = calls]_vars
    /\ [][globalCalls' > globalCalls =>
            \A i \in DOMAIN task' : task'[i] \in {"fulfilled", "caught"}]_vars

\* The global call is in flight after two extractions, one of which failed.
C4_Witness ==
    /\ pc = "global"
    /\ Len(files) >= 2
    /\ \E i \in DOMAIN task : task[i] = "caught"
    /\ \E i \in DOMAIN task : task[i] = "fulfilled"

\* C5: retryApiCall invokes the model call at most 3 times; an attempt that
\* returns ends it, with that attempt's result and no further call; and it
\* always ends.
C5_AtMostThreeCalls ==
    /\ globalCalls <= 3
    /\ \A i \in DOMAIN calls : calls[i] <= 3

C5_ReturnEndsRetryStep ==
    /\ \A i \in DOMAIN task, out \in ExtractionOutcomes :
          (ExtractReturn(i, out) /\ out.kind = "text") =>
              /\ task'[i] \in {"pause", "fulfilled", "caught"}
              /\ ParsesAsJson(out) =>
                    exhibits'[i] = Exhibit(files[i], JSONparse(StripFences(out.text)).value)
    /\ \A out \in GlobalOutcomes :
          (GlobalReturn(out) /\ out.kind = "text") =>
              /\ pc' = "done"
              /\ ParsesAsJson(out) =>
                    response'.globalAnalysis = JSONparse(StripFences(out.text)).value
    /\ \A i \in DOMAIN task : ~(task[i] \in {"reading", "calling", "backoff"}) => calls'[i] = calls[i]
    /\ pc = "done" => globalCalls' = globalCalls

C5_RetryBoundedAndEnds ==
    /\ []C5_AtMostThreeCalls
    /\ [][C5_ReturnEndsRetryStep]_vars
    /\ \A i \in 1..MaxFiles : InFlight(i) ~> (Succeeded(i) \/ Failed(i))
    /\ (pc \in {"global", "globalBackoff"}) ~> Done

\* An extraction that succeeded on its third attempt, after which the global
\* analysis failed on its third.
C5_Witness ==
    /\ handler = "sequential"
    /\ \E i \in DOMAIN task : Succeeded(i) /\ calls[i] = 3
    /\ globalCalls = 3
    /\ Done


\* C6: the exhibit of a failed extraction has isError true, a summary that
\* embeds the error message, expenses 0 and no clientInfo.
C6_ErrorExhibitShape ==
    \A i \in DOMAIN task :
        (task[i] = "caught" /\ i \in DOMAIN exhibits) =>
            LET e == exhibits[i]
            IN  /\ "isError" \in DOMAIN e
                /\ e.isError = TRUE
                /\ caughtErr[i] \in Range(e.summary)
                /\ e.expenses = 0
                /\ ~("clientInfo" \in DOMAIN e)

\* C7: the combined text of the global prompt has an entry for every exhibit
\* of a successful extraction and for no exhibit of a failed one.
HasEntry(e) ==
    \E k \in DOMAIN combinedSummaries :
        combinedSummaries[k].heading = e.heading /\ combinedSummaries[k].summary = e.summary

C7_CombinedExcludesErrors ==
    globalCalls >= 1 =>
        \A i \in DOMAIN exhibits : HasEntry(exhibits[i]) <=> task[i] = "fulfilled"

\* The existing exhibits of a request that its keepFiles retain.
Retained(req) ==
    SelectSeq(req.existingExhibits, LAMBDA e : e.fileName \in Range(req.keepFiles))

NothingToDo(req) ==
    Len(req.pdfs) = 0 /\ Len(Retained(req)) = 0 /\ ~req.reprocessAll

FormDataFailed == Done /\ response.details = FormDataErrorMessage

NoModelCall == globalCalls = 0 /\ \A i \in DOMAIN calls : calls[i] = 0

\* C8: a request (with the credential set and its form data readable) ends
\* with the input error, without a model call, exactly when it has no new
\* file, retains no existing exhibit and reprocessAll is false.
C8_InputErrorExactly ==
    (Done /\ apiKey /\ ~FormDataFailed) =>
        /\ response.status = 400 <=> NothingToDo(request)
        /\ response.status = 400 => NoModelCall

\* C9: without the credential the request is rejected with the configuration
\* error at entry: the form data is never read and no model call is issued.
C9_MissingKeyRejectsFirst ==
    ~apiKey =>
        /\ pc \in {"entry", "done"}
        /\ formRead = FALSE
        /\ files = <<>>
        /\ task = <<>>
        /\ NoModelCall
        /\ pc = "entry" => response = NoResponse
        /\ Done =>
              /\ response.status = 500
              /\ response.keys = {"error"}
              /\ response.error = "Gemini API key missing"

\* A request with files was rejected for the missing credential.
C9_Witness ==
    /\ ~apiKey
    /\ Done
    /\ Len(request.pdfs) > 0
    /\ response.status = 500

\* C10: a request with reprocessAll = true and no new file is not rejected,
\* runs no extraction, and its success response returns every existing
\* exhibit with its fileName, expenses and summary.
C10_ReprocessPreserves ==
    (Done /\ apiKey /\ ~FormDataFailed /\ request.reprocessAll
          /\ Len(request.pdfs) = 0 /\ Len(request.existingExhibits) > 0) =>
        /\ response.status # 400
        /\ \A i \in DOMAIN calls : calls[i] = 0
        /\ Success =>
              /\ Len(response.exhibits) = Len(request.existingExhibits)
              /\ \A i \in DOMAIN response.exhibits :
                    /\ response.exhibits[i].fileName = request.existingExhibits[i].fileName
                    /\ response.exhibits[i].expenses = request.existingExhibits[i].expenses
                    /\ response.exhibits[i].summary = request.existingExhibits[i].summary

\* C11: when an uploaded file has the fileName of a retained existing
\* exhibit, the output holds exactly one exhibit of that name, the existing
\* one, and the upload is not extracted.
C11_DuplicateUploadDropped ==
    Success =>
        \A k \in DOMAIN Retained(request) :
            LET e == Retained(request)[k]
            IN  e.fileName \in Range(request.pdfs) =>
                    /\ Cardinality({j \in DOMAIN response.exhibits :
                                        response.exhibits[j].fileName = e.fileName}) = 1
                    /\ e \in Range(response.exhibits)
                    /\ \A i \in DOMAIN files : files[i] = e.fileName => calls[i] = 0

\* C12: with reprocessAll false, the existing exhibits carried into the
\* output are exactly those whose fileName keepFiles lists.
CarriedOver(e) ==
    \E j \in DOMAIN response.exhibits :
        /\ response.exhibits[j].fileName = e.fileName
        /\ response.exhibits[j].heading = e.heading
        /\ response.exhibits[j].summary = e.summary
        /\ response.exhibits[j].expenses = e.expenses

C12_KeepFilesFilter ==
    (Success /\ ~request.reprocessAll) =>
        \A k \in DOMAIN request.existingExhibits :
            LET e == request.existingExhibits[k]
            IN  CarriedOver(e) <=> e.fileName \in Range(request.keepFiles)

\* C13: once resolved, each of the four fields holds a value of highest
\* frequency in its candidate list, the first seen among those of equal
\* frequency, and null when the list is empty; resolving the same lists again
\* gives the same values.
IsPluralityFirstSeen(list, r) ==
    IF list = <<>> THEN r = Null
    ELSE \E i \in DOMAIN list :
            /\ list[i] = r
            /\ \A j \in DOMAIN list : Count(list, list[j]) <= Count(list, r)
            /\ \A j \in 1..(i - 1) : Count(list, list[j]) < Count(list, r)

C13_PluralityFirstSeen ==
    aggPc = "resolved" =>
        \A f \in ClientInfoFields : IsPluralityFirstSeen(candidates[f], aggregated[f])

\* A tie between two names resolved to the first seen, next to a field with
\* no candidate.
C13_Witness ==
    /\ aggPc = "resolved"
    /\ candidates.clientName = <<"Jane Doe", "J. Doe", "J. Doe", "Jane Doe">>
    /\ aggregated.clientName = "Jane Doe"
    /\ candidates.claimNumber = <<>>
    /\ aggregated.claimNumber = Null
    /\ aggregated.policyNumber = "P-1"

\* C14: no two exhibits of the session share a fileName.
C14_UniqueFileNames ==
    \A i, j \in DOMAIN sessionExhibits :
        sessionExhibits[i].fileName = sessionExhibits[j].fileName => i = j

\* The step in which a processing response replaces the exhibit list.
ResponseApplied == isUploading /\ ~isUploading'

TitleEdited == \E index \in 1..MaxFiles, title \in EditingTitles : HandleSaveEdit(index, title)

SectionEdited ==
    \E section \in ExhibitSections, content \in EditContents :
        UpdateExhibitSection(section, content)

HeldClientInfo ==
    IF letterData.apiData.present /\ letterData.apiData.hasClientInfo
    THEN letterData.apiData.clientInfo
    ELSE NullClientInfo

FileNamesOf(exs) == {exs[i].fileName : i \in DOMAIN exs}

ExhibitSetChanged ==
    \/ Len(sessionExhibits') # Len(sessionExhibits)
    \/ FileNamesOf(sessionExhibits') # FileNamesOf(sessionExhibits)

C17_AnalysisReplacedWhole ==
    [][ResponseApplied =>
          \A g \in GlobalData :
              LET body == SuccessBody(sessionExhibits', g)
              IN  ProcessFilesAnswered(body, FALSE) =>
                      /\ letterData'.apiData.globalAnalysis = g
                      /\ letterData'.suggestedContent =
                             [natureOfClaim |-> g.natureOfClaim, facts |-> g.facts]]_vars

\* A pass was applied after another one: the date of loss is the one of an
\* exhibit the session no longer has, the analysis is one of a response.
C17_Witness ==
    /\ ~isUploading
    /\ ops >= 6
    /\ Len(sessionExhibits) = 1
    /\ sessionExhibits[1].clientInfo.clientName = "J. Doe"
    /\ letterData.caseInfo.dateOfLoss = "2024-01-05"
    /\ letterData.apiData.globalAnalysis \in GlobalData
    /\ letterData.suggestedContent.facts = letterData.apiData.globalAnalysis.facts

\* What the export was asked to render as the damages section.
ExportedDamages ==
    IF exportBody.apiData.present THEN exportBody.apiData.globalAnalysis.damages
    ELSE exportBody.suggestedContent.damages

StringDamagesExported ==
    /\ exportPc = "done"
    /\ ExportedDamages.kind = "string"
    /\ ExportedDamages.lines # <<>>

\* The structured body of a damages string for a letter whose total of
\* medical expenses is t.
StructuredBody(t) ==
    <<Para(<<Txt("1.  Special Damages - $"), Amt(t)>>, TRUE),
      Para(<<Txt("     o  "), Txt("Past medical expenses (see exhibits for details)"),
             Txt(": $"), Amt(t)>>, FALSE),
      Para(<<Txt("     o  Total Past Medical Expenses: $"), Amt(t)>>, FALSE),
      Para(<<Txt("3.  General Damages - $"), Amt(300000)>>, TRUE),
      Para(<<Txt("     "), Txt("a"), Txt(".  "), Txt("Pain and suffering")>>, FALSE),
      Para(<<Txt("     "), Txt("b"), Txt(".  "), Txt("Loss of enjoyment of life")>>, FALSE),
      Para(<<Txt("     "), Txt("c"), Txt(".  "), Txt("Emotional distress")>>, FALSE)>>

\* The children from..to of the document, without their line numbers.
DocumentParagraphs(from, to) ==
    [i \in 1..(to - from + 1) |->
        Para(documentSections[from + i - 1].text, documentSections[from + i - 1].bold)]

C19_RequestShape ==
    [][HandleProcessFiles =>
          IF selectedFiles = <<>> /\ sessionExhibits = <<>>
          THEN ~isUploading' /\ formData' = NoFormData
          ELSE /\ isUploading'
               /\ formData'.pdfs = selectedFiles
               /\ ("reprocessAll" \in formData'.keys /\ formData'.reprocessAll)
                     <=> (selectedFiles = <<>> /\ sessionExhibits # <<>>)
               /\ "reprocessAll" \notin formData'.keys => ~formData'.reprocessAll
               /\ "existingExhibits" \in formData'.keys <=> sessionExhibits # <<>>
               /\ "keepFiles" \in formData'.keys <=> sessionExhibits # <<>>
               /\ formData'.existingExhibits = sessionExhibits
               /\ formData'.keepFiles =
                      [i \in 1..Len(formData'.existingExhibits) |->
                          formData'.existingExhibits[i].fileName]]_vars

\* A request in flight that carries a new file next to an existing exhibit,
\* so no reprocessAll.
C19_Witness ==
    /\ isUploading
    /\ formData.pdfs # <<>>
    /\ formData.existingExhibits # <<>>
    /\ formData.keys = {"pdfs", "existingExhibits", "keepFiles"}

\* C20: the letter's totalMedicalExpenses is the sum of the expenses of the
\* exhibits the session holds.
C20_TotalFollowsExhibits ==
    letterData.totalMedicalExpenses =
        SumSeq([i \in 1..Len(sessionExhibits) |-> sessionExhibits[i].expenses])

\* The field of clientInfo that fills a case-info field.
ClientInfoField(field) == IF field = "client" THEN "clientName" ELSE field

CaseInfoFields == {"client", "policyNumber", "claimNumber", "dateOfLoss"}

\* C21: when a success response is applied, each case-info field becomes
\* the response's clientInfo value if that value is a non-empty string, and
\* stays what it was (typed or taken from an earlier response) if the value
\* is null or empty.
C21_CaseInfoFromResponse ==
    [][ResponseApplied =>
          \A g \in GlobalData :
              LET body == SuccessBody(sessionExhibits', g)
              IN  ProcessFilesAnswered(body, FALSE) =>
                      \A field \in CaseInfoFields :
                          LET value == body.clientInfo[ClientInfoField(field)]
                          IN  letterData'.caseInfo[field] =
                                  IF value # Null /\ value # ""
                                  THEN value
                                  ELSE letterData.caseInfo[field]]_vars

\* A later response named the client anew and carried no date of loss: the
\* date of the earlier response is still there.
C21_Witness ==
    /\ ~isUploading
    /\ letterData.apiData.present
    /\ letterData.apiData.clientInfo.clientName = "J. Doe"
    /\ letterData.apiData.clientInfo.dateOfLoss = Null
    /\ letterData.caseInfo.client = "J. Doe"
    /\ letterData.caseInfo.dateOfLoss = "2024-01-05"


\* C22: one call of retryApiCall sets a timer of 2000 ms after its first
\* failed attempt and of 3000 ms after its second, each 1.5 times the one
\* before; it sets none after the third, and what it throws then is the
\* error of the third attempt.
C22_BackoffThenLastError ==
    /\ retryWaits \in {<<>>, <<2000>>, <<2000, 3000>>}
    /\ \A k \in 1..(Len(retryWaits) - 1) : 2 * retryWaits[k + 1] = 3 * retryWaits[k]
    /\ retryPc = "waiting" => Len(retryWaits) = Len(retryLog)
    /\ retryPc = "calling" => Len(retryWaits) = Len(retryLog) /\ retryAttempt = Len(retryLog) + 1
    /\ retryPc = "returned" => Len(retryWaits) = Len(retryLog)
    /\ retryPc = "thrown" =>
          /\ Len(retryLog) = 3
          /\ retryWaits = <<2000, 3000>>
          /\ retryEnd = Threw(retryLog[3])

\* Three attempts failed, the last with an error unlike the two before.
C22_Witness ==
    /\ retryPc = "thrown"
    /\ retryLog[3] # retryLog[1]
    /\ retryLog[3] # retryLog[2]


\* C23: every line wrapTextToLines returns is at most maxLength characters
\* long, or else is one word (it holds no blank) longer than maxLength.
C23_LinesFit ==
    layoutPc = "wrapped" =>
        \A k \in DOMAIN layoutLines :
            \/ Len(layoutLines[k]) <= layoutMaxLength
            \/ \A i \in DOMAIN layoutLines[k] : layoutLines[k][i] # " "

\* A text was wrapped to a line of several words and a line of one word
\* that is too long.
C23_Witness ==
    /\ layoutPc = "wrapped"
    /\ \E k \in DOMAIN layoutLines : \E i \in DOMAIN layoutLines[k] : layoutLines[k][i] = " "
    /\ \E k \in DOMAIN layoutLines : Len(layoutLines[k]) > layoutMaxLength

\* The number of lines emitted for one input line.
EmittedFor(line, version) ==
    IF Trim(line) = <<>> THEN 1 ELSE Len(WrappedLines(line, version))

\* The number of lines emitted for the input lines before line i.
EmittedBefore(i) ==
    SumSeq([j \in 1..(i - 1) |-> EmittedFor(textLines[j], pleadingVersion)])

\* C24: the k-th line createPleadingContent emits carries the number k; an
\* input line that is empty or blank yields one numbered line without text,
\* and any other input line yields, in order, one numbered line for each
\* line wrapTextToLines returns for it.
C24_NumberedConsecutively ==
    layoutPc = "pleaded" =>
        /\ \A k \in DOMAIN pleadingParagraphs : pleadingParagraphs[k].lineNumber = k
        /\ Len(pleadingParagraphs) = EmittedBefore(Len(textLines) + 1)
        /\ \A i \in DOMAIN textLines :
               IF Trim(textLines[i]) = <<>>
               THEN Trim(pleadingParagraphs[EmittedBefore(i) + 1].content) = <<>>
               ELSE LET wrappedLines == WrappedLines(textLines[i], pleadingVersion)
                    IN  \A k \in DOMAIN wrappedLines :
                            Trim(pleadingParagraphs[EmittedBefore(i) + k].content) =
                                Trim(wrappedLines[k])

\* A blank line between two lines that wrap to two lines each.
C24_Witness ==
    /\ layoutPc = "pleaded"
    /\ Len(textLines) = 3
    /\ EmittedFor(textLines[1], pleadingVersion) = 2
    /\ Trim(textLines[2]) = <<>>
    /\ EmittedFor(textLines[3], pleadingVersion) = 2
    /\ pleadingParagraphs[5].lineNumber = 5


\* C25: a success response holds one exhibit for each uploaded file, in
\* the order of the upload: the i-th exhibit carries the name of the i-th
\* file, whichever extractions failed and in whatever order the model calls
\* ended.
C25_OneExhibitPerFileInOrder ==
    (Done /\ response.status = 200) =>
        /\ Len(response.exhibits) = Len(request.pdfs)
        /\ \A i \in DOMAIN response.exhibits :
               response.exhibits[i].fileName = request.pdfs[i]

\* Two files of different names, the first of which failed while the second
\* was extracted, under either handler.
C25_Witness ==
    /\ Done
    /\ response.status = 200
    /\ Len(request.pdfs) = 2
    /\ request.pdfs[1] # request.pdfs[2]
    /\ caughtErr[1] # NoError
    /\ caughtErr[2] = NoError


\* C26: at most one fetch of handleProcessFiles is unanswered at any time,
\* and isUploading is true exactly while one is: it is false again after the
\* answer, whether that was a success, an error body or an exception.
C26_OneRequestInFlight ==
    /\ inFlight \in {0, 1}
    /\ isUploading <=> inFlight = 1

\* A request threw, isUploading went back to false, and the next request is
\* in flight.
C26_Witness ==
    /\ lastAlert = "Failed to upload and process files"
    /\ isUploading
    /\ inFlight = 1

\* C27: a file of the selected-files list stays in the list from one step
\* to the next unless the user removes it or a processing response holds an
\* exhibit for it; a file added during a request is still listed after the
\* request succeeds.
C27_NoSelectedFileLost ==
    [][\A n \in Range(selectedFiles) :
           \/ n \in Range(selectedFiles')
           \/ \E index \in DOMAIN selectedFiles :
                  selectedFiles[index] = n /\ RemoveSelectedFile(index)
           \/ ResponseApplied /\ n \in FileNamesOf(sessionExhibits')]_vars

FailureAnswered ==
    ProcessFilesAnswered(FailureBody, FALSE) \/ ProcessFilesAnswered(FailureBody, TRUE)

\* C28: the answer of a failed request (an error body, or a fetch or a
\* response.json() that throws) leaves the exhibits, the letter data with
\* the stored API response, and the selected files as they were.
C28_FailureChangesNothing ==
    [][FailureAnswered =>
          /\ sessionExhibits' = sessionExhibits
          /\ letterData' = letterData
          /\ selectedFiles' = selectedFiles]_vars

\* A request with new files and existing exhibits was answered with an
\* error body: files, exhibits and analysis are still there.
C28_Witness ==
    /\ lastAlert = "Error processing PDFs: "
    /\ ~isUploading
    /\ selectedFiles # <<>>
    /\ sessionExhibits # <<>>
    /\ letterData.apiData.present
    /\ ops = 6


\* Sidebar.removeExhibit removes one exhibit of several.
RemovedOneOfSeveral ==
    /\ Len(sessionExhibits) > 1
    /\ \E index \in DOMAIN sessionExhibits : RemoveExhibit(index)

SelectedIndexValid ==
    sessionExhibits # <<>> => selectedExhibitForImage \in 0..(Len(sessionExhibits) - 1)

\* The exhibit that was selected when the upload of a read started.
SelectedAtUpload(read) == read.exhibits[read.selectedExhibitForImage + 1]

\* The current exhibits with the images of a read appended to the exhibit
\* that was selected, and nothing else changed; the current exhibits when
\* that exhibit is no longer among them.
CurrentWithImages(read) ==
    LET target == SelectedAtUpload(read).fileName
    IN  [i \in DOMAIN sessionExhibits |->
            IF sessionExhibits[i].fileName = target
            THEN [sessionExhibits[i] EXCEPT !.images = @ \o read.base64Images]
            ELSE sessionExhibits[i]]

UploadKeepsChanges ==
    \A k \in DOMAIN imageReads :
        (ImagesRead(k) /\ imageReads[k].selectedExhibitForImage + 1 \in DOMAIN imageReads[k].exhibits)
            => sessionExhibits' = CurrentWithImages(imageReads[k])

\* C30: whenever the exhibit manager holds at least one exhibit,
\* selectedExhibitForImage is a valid index into the current exhibit list,
\* and a completed image upload appends its images to the exhibit that was
\* selected without discarding any exhibit change (delete, reorder, rename,
\* other image upload) made while the image files were being read.
C30_ValidIndexAndUploadKeepsChanges ==
    /\ []SelectedIndexValid
    /\ [][UploadKeepsChanges]_vars

====
